---- MODULE Spec2Model ----
(***************************************************************************)
(* Sort-merge join stream (SMJStream) of                                   *)
(* datafusion/core/src/physical_plan/sort_merge_join.rs.                   *)
(*                                                                         *)
(* Indices (streamed_idx, ranges, scanning cursors) are 0-based as in the  *)
(* source; TLA+ sequences are 1-based, so element i of a batch is b[i+1].  *)
(* A row is [id, key]: key is the tuple of its join-key cells (NULL marks  *)
(* an invalid cell), id stands for all of its columns, so that gathering a *)
(* row into the output is gathering its id.                                *)
(***************************************************************************)
EXTENDS Integers, Sequences, FiniteSets, TLC

\* ---------------------------------------------------------------- bounds
\* rows of one child
MaxRows == 3

\* an invalid (null) cell; valid cells are positive
NULL == 0
Cells == {NULL, 1, 2}
BatchSizes == {1, 2}
BigBatch == MaxRows * MaxRows + 2 * MaxRows + 1

JoinTypes == {"Inner", "Left", "Right", "Full", "Semi", "Anti"}
SortOptionsSet == [descending : BOOLEAN, nulls_first : BOOLEAN]

\* ---------------------------------------------------------------- helpers
Min(a, b) == IF a < b THEN a ELSE b

Range(s) == {s[i] : i \in DOMAIN s}

RECURSIVE Flatten(_)
Flatten(ss) == IF ss = <<>> THEN <<>> ELSE Head(ss) \o Flatten(Tail(ss))

\* Ordering::reverse
reverse(o) == CASE o = "Less" -> "Greater"
                [] o = "Greater" -> "Less"
                [] OTHER -> "Equal"

\* partial_cmp on two valid values
partial_cmp(a, b) == IF a < b THEN "Less" ELSE IF a > b THEN "Greater" ELSE "Equal"

\* join_arrays: the key columns of a batch, one array per `on` column
join_arrays(batch, on_column) ==
    [c \in 1..Len(on_column) |-> [r \in 1..Len(batch) |-> batch[r].key[on_column[c]]]]

\* ---------------------------------------------------------------- comparator
\* compare_value with two nulls always Equal
compare_value_nulls_equal(l, r, so, nen) ==
    CASE l # NULL /\ r # NULL ->
            IF so.descending THEN reverse(partial_cmp(l, r)) ELSE partial_cmp(l, r)
      [] l = NULL /\ r # NULL -> IF so.nulls_first THEN "Less" ELSE "Greater"
      [] l # NULL /\ r = NULL -> IF so.nulls_first THEN "Greater" ELSE "Less"
      [] OTHER -> "Equal"

\* compare_value whose descending flag also reverses the null cases
compare_value_reverses_nulls(l, r, so, nen) ==
    LET res == CASE l # NULL /\ r # NULL -> partial_cmp(l, r)
                 [] l = NULL /\ r # NULL -> IF so.nulls_first THEN "Less" ELSE "Greater"
                 [] l # NULL /\ r = NULL -> IF so.nulls_first THEN "Greater" ELSE "Less"
                 [] OTHER -> IF nen THEN "Equal" ELSE "Less"
    IN IF so.descending THEN reverse(res) ELSE res

\* compare_value! of compare_join_arrays: one column
compare_value(l, r, so, nen) ==
    CASE l # NULL /\ r # NULL ->
            IF so.descending THEN reverse(partial_cmp(l, r)) ELSE partial_cmp(l, r)
      [] l = NULL /\ r # NULL -> IF so.nulls_first THEN "Less" ELSE "Greater"
      [] l # NULL /\ r = NULL -> IF so.nulls_first THEN "Greater" ELSE "Less"
      [] OTHER -> IF nen THEN "Equal" ELSE "Less"

RECURSIVE compare_from(_, _, _, _, _, _, _)
compare_from(c, la, l, ra, r, so, nen) ==
    IF c > Min(Min(Len(la), Len(ra)), Len(so)) THEN "Equal"
    ELSE LET res == compare_value(la[c][l + 1], ra[c][r + 1], so[c], nen)
         IN IF res # "Equal" THEN res
            ELSE compare_from(c + 1, la, l, ra, r, so, nen)

compare_join_arrays(la, l, ra, r, so, nen) == compare_from(1, la, l, ra, r, so, nen)

\* is_equal_value with two nulls not equal
is_equal_value_null_differs(l, r) == l # NULL /\ r # NULL /\ l = r

\* is_equal_value that also takes a lone null for equal
is_equal_value_lone_null(l, r) == l = NULL \/ r = NULL \/ l = r

\* compare_value! of is_join_arrays_equal: one column
is_equal_value(l, r) ==
    CASE l # NULL /\ r # NULL -> l = r
      [] l = NULL /\ r = NULL -> TRUE
      [] OTHER -> FALSE

is_join_arrays_equal(la, l, ra, r) ==
    \A c \in 1..Min(Len(la), Len(ra)) : is_equal_value(la[c][l + 1], ra[c][r + 1])

\* ---------------------------------------------------------------- input streams
\* An input stream is the script of what its next polls answer: batches, and
\* (in the specifications that use them) Pending and error answers.  A stream
\* whose script is used up answers end-of-stream, also when polled again.
BatchItem(rows) == [kind |-> "batch", rows |-> rows]

\* Poll::Pending: the stream has nothing yet and will wake the consumer
PendingItem == [kind |-> "pending", rows |-> <<>>]

\* Poll::Ready(Some(Err(e)))
ErrItem(e) == [kind |-> "err", rows |-> <<>>, error |-> e]

poll_next_unpin(script) ==
    IF script = <<>>
    THEN [res |-> "none", batch |-> <<>>, rest |-> <<>>, error |-> "none"]
    ELSE [res |-> Head(script).kind, batch |-> Head(script).rows, rest |-> Tail(script),
          error |-> IF Head(script).kind = "err" THEN Head(script).error ELSE "none"]

\* ---------------------------------------------------------------- BufferedData
BufferedBatch_new(batch, start, end, on_column) ==
    [batch |-> batch, range |-> [start |-> start, end |-> end],
     join_arrays |-> join_arrays(batch, on_column)]

BufferedData_default == [batches |-> <<>>, scanning_batch_idx |-> 0, scanning_offset |-> 0]

head_batch(bd) == bd.batches[1]

tail_batch(bd) == bd.batches[Len(bd.batches)]

range_len(range) == IF range.end > range.start THEN range.end - range.start ELSE 0

has_buffered_rows(bd) == \E i \in DOMAIN bd.batches : range_len(bd.batches[i].range) > 0

scanning_reset(bd) == [bd EXCEPT !.scanning_batch_idx = 0, !.scanning_offset = 0]

scanning_batch(bd) == bd.batches[bd.scanning_batch_idx + 1]

scanning_idx(bd) == scanning_batch(bd).range.start + bd.scanning_offset

scanning_batch_finished(bd) == bd.scanning_offset = range_len(scanning_batch(bd).range)

scanning_finished(bd) == bd.scanning_batch_idx = Len(bd.batches)

scanning_finish(bd) ==
    [bd EXCEPT !.scanning_batch_idx = Len(bd.batches), !.scanning_offset = 0]

RECURSIVE scanning_skip(_)
scanning_skip(bd) ==
    IF ~scanning_finished(bd) /\ scanning_batch_finished(bd)
    THEN scanning_skip([bd EXCEPT !.scanning_batch_idx = @ + 1, !.scanning_offset = 0])
    ELSE bd

scanning_advance(bd) == scanning_skip([bd EXCEPT !.scanning_offset = @ + 1])

\* ---------------------------------------------------------------- construction
\* SMJStream::try_new; the placeholder streamed batch is empty
try_new(sort_options, null_equals_null, streamed, buffered, on_streamed, on_buffered, join_type, batch_size) ==
    [state |-> "Init",
     sort_options |-> sort_options,
     null_equals_null |-> null_equals_null,
     streamed |-> streamed,
     buffered |-> buffered,
     streamed_batch |-> <<>>,
     streamed_join_arrays |-> <<>>,
     streamed_idx |-> 0,
     buffered_data |-> BufferedData_default,
     streamed_joined |-> FALSE,
     buffered_joined |-> FALSE,
     streamed_state |-> "Init",
     buffered_state |-> "Init",
     current_ordering |-> "Equal",
     on_streamed |-> on_streamed,
     on_buffered |-> on_buffered,
     output_record_batches |-> <<>>,
     output_size |-> 0,
     batch_size |-> batch_size,
     join_type |-> join_type,
     panicked |-> FALSE]

\* execute without the swap of the children for Right
execute_no_swap(left, right, on, join_type, sort_options, null_equals_null, batch_size) ==
    try_new(sort_options, null_equals_null, left, right,
            [i \in DOMAIN on |-> on[i][1]], [i \in DOMAIN on |-> on[i][2]],
            join_type, batch_size)

\* SortMergeJoinExec::execute: Right streams the right child, the others the left
execute(left, right, on, join_type, sort_options, null_equals_null, batch_size) ==
    IF join_type = "Right"
    THEN try_new(sort_options, null_equals_null, right, left,
                 [i \in DOMAIN on |-> on[i][2]], [i \in DOMAIN on |-> on[i][1]],
                 join_type, batch_size)
    ELSE try_new(sort_options, null_equals_null, left, right,
                 [i \in DOMAIN on |-> on[i][1]], [i \in DOMAIN on |-> on[i][2]],
                 join_type, batch_size)

\* ---------------------------------------------------------------- streamed cursor
\* streamed_step that does not record the end of the streamed input
streamed_step_end_unrecorded(m) ==
    CASE m.streamed_state = "Init" ->
            IF m.streamed_idx + 1 < Len(m.streamed_batch)
            THEN [m |-> [m EXCEPT !.streamed_idx = @ + 1, !.streamed_state = "Ready"],
                  ret |-> "some"]
            ELSE [m |-> [m EXCEPT !.streamed_state = "Polling"], ret |-> "continue"]
      [] m.streamed_state = "Polling" ->
            LET p == poll_next_unpin(m.streamed)
                m1 == [m EXCEPT !.streamed = p.rest]
            IN CASE p.res = "pending" -> [m |-> m1, ret |-> "pending"]
                 [] p.res = "err" -> [m |-> m1, ret |-> "err", error |-> p.error]
                 [] p.res = "none" -> [m |-> m1, ret |-> "pending"]
                 [] OTHER ->
                        IF Len(p.batch) > 0
                        THEN [m |-> [m1 EXCEPT !.streamed_batch = p.batch,
                                               !.streamed_join_arrays =
                                                   join_arrays(p.batch, m.on_streamed),
                                               !.streamed_idx = 0,
                                               !.streamed_state = "Ready"],
                              ret |-> "continue"]
                        ELSE [m |-> m1, ret |-> "continue"]
      [] m.streamed_state = "Ready" -> [m |-> m, ret |-> "some"]
      [] OTHER -> [m |-> m, ret |-> "none"]

\* streamed_step that leaves the last row of a batch unread
streamed_step_drops_last_row(m) ==
    CASE m.streamed_state = "Init" ->
            IF m.streamed_idx + 2 < Len(m.streamed_batch)
            THEN [m |-> [m EXCEPT !.streamed_idx = @ + 1, !.streamed_state = "Ready"],
                  ret |-> "some"]
            ELSE [m |-> [m EXCEPT !.streamed_state = "Polling"], ret |-> "continue"]
      [] m.streamed_state = "Polling" ->
            LET p == poll_next_unpin(m.streamed)
                m1 == [m EXCEPT !.streamed = p.rest]
            IN CASE p.res = "pending" -> [m |-> m1, ret |-> "pending"]
                 [] p.res = "err" -> [m |-> m1, ret |-> "err", error |-> p.error]
                 [] p.res = "none" ->
                        [m |-> [m1 EXCEPT !.streamed_state = "Exhausted"], ret |-> "continue"]
                 [] OTHER ->
                        IF Len(p.batch) > 0
                        THEN [m |-> [m1 EXCEPT !.streamed_batch = p.batch,
                                               !.streamed_join_arrays =
                                                   join_arrays(p.batch, m.on_streamed),
                                               !.streamed_idx = 0,
                                               !.streamed_state = "Ready"],
                              ret |-> "continue"]
                        ELSE [m |-> m1, ret |-> "continue"]
      [] m.streamed_state = "Ready" -> [m |-> m, ret |-> "some"]
      [] OTHER -> [m |-> m, ret |-> "none"]

\* streamed_step that steps past the last row of a batch before it polls
streamed_step_past_end(m) ==
    CASE m.streamed_state = "Init" ->
            IF m.streamed_idx + 1 < Len(m.streamed_batch)
            THEN [m |-> [m EXCEPT !.streamed_idx = @ + 1, !.streamed_state = "Ready"],
                  ret |-> "some"]
            ELSE [m |-> [m EXCEPT !.streamed_idx = @ + 1, !.streamed_state = "Polling"],
                  ret |-> "continue"]
      [] m.streamed_state = "Polling" ->
            LET p == poll_next_unpin(m.streamed)
                m1 == [m EXCEPT !.streamed = p.rest]
            IN CASE p.res = "pending" -> [m |-> m1, ret |-> "pending"]
                 [] p.res = "err" -> [m |-> m1, ret |-> "err", error |-> p.error]
                 [] p.res = "none" ->
                        [m |-> [m1 EXCEPT !.streamed_state = "Exhausted"], ret |-> "continue"]
                 [] OTHER ->
                        IF Len(p.batch) > 0
                        THEN [m |-> [m1 EXCEPT !.streamed_batch = p.batch,
                                               !.streamed_join_arrays =
                                                   join_arrays(p.batch, m.on_streamed),
                                               !.streamed_idx = 0,
                                               !.streamed_state = "Ready"],
                              ret |-> "continue"]
                        ELSE [m |-> m1, ret |-> "continue"]
      [] m.streamed_state = "Ready" -> [m |-> m, ret |-> "some"]
      [] OTHER -> [m |-> m, ret |-> "none"]

\* one iteration of the loop of poll_streamed_row
streamed_step(m) ==
    CASE m.streamed_state = "Init" ->
            IF m.streamed_idx + 1 < Len(m.streamed_batch)
            THEN [m |-> [m EXCEPT !.streamed_idx = @ + 1, !.streamed_state = "Ready"],
                  ret |-> "some"]
            ELSE [m |-> [m EXCEPT !.streamed_state = "Polling"], ret |-> "continue"]
      [] m.streamed_state = "Polling" ->
            LET p == poll_next_unpin(m.streamed)
                m1 == [m EXCEPT !.streamed = p.rest]
            IN CASE p.res = "pending" -> [m |-> m1, ret |-> "pending"]
                 [] p.res = "err" -> [m |-> m1, ret |-> "err", error |-> p.error]
                 [] p.res = "none" ->
                        [m |-> [m1 EXCEPT !.streamed_state = "Exhausted"], ret |-> "continue"]
                 [] OTHER ->
                        IF Len(p.batch) > 0
                        THEN [m |-> [m1 EXCEPT !.streamed_batch = p.batch,
                                               !.streamed_join_arrays =
                                                   join_arrays(p.batch, m.on_streamed),
                                               !.streamed_idx = 0,
                                               !.streamed_state = "Ready"],
                              ret |-> "continue"]
                        ELSE [m |-> m1, ret |-> "continue"]
      [] m.streamed_state = "Ready" -> [m |-> m, ret |-> "some"]
      [] OTHER -> [m |-> m, ret |-> "none"]

RECURSIVE poll_streamed_row(_)
poll_streamed_row(m) ==
    LET r == streamed_step(m)
    IN IF r.ret = "continue" THEN poll_streamed_row(r.m) ELSE r

\* ---------------------------------------------------------------- buffered accumulator
\* pop_consumed that also pops the batch the previous run ended in
pop_consumed_all(batches) == <<>>

\* BufferedState::Init: pop the head batches the previous run consumed whole
RECURSIVE pop_consumed(_)
pop_consumed(batches) ==
    IF batches # <<>> /\ Head(batches).range.end = Len(Head(batches).batch)
    THEN pop_consumed(Tail(batches))
    ELSE batches

\* grow_run that, on a row of another key, moves the range of the tail batch
\* past the run it has just grown
RECURSIVE grow_run_restarts(_)
grow_run_restarts(bd) ==
    IF tail_batch(bd).range.end < Len(tail_batch(bd).batch)
    THEN IF is_join_arrays_equal(head_batch(bd).join_arrays, head_batch(bd).range.start,
                                 tail_batch(bd).join_arrays, tail_batch(bd).range.end)
         THEN grow_run_restarts([bd EXCEPT !.batches[Len(bd.batches)].range.end = @ + 1])
         ELSE [bd |-> [bd EXCEPT !.batches[Len(bd.batches)].range =
                                     [start |-> @.end, end |-> @.end]],
               differ |-> TRUE]
    ELSE [bd |-> bd, differ |-> FALSE]

\* BufferedState::PollingRest: the while loop that grows the run inside the tail
\* batch; differ is TRUE when it returned Ready on a row of another key
RECURSIVE grow_run(_)
grow_run(bd) ==
    IF tail_batch(bd).range.end < Len(tail_batch(bd).batch)
    THEN IF is_join_arrays_equal(head_batch(bd).join_arrays, head_batch(bd).range.start,
                                 tail_batch(bd).join_arrays, tail_batch(bd).range.end)
         THEN grow_run([bd EXCEPT !.batches[Len(bd.batches)].range.end = @ + 1])
         ELSE [bd |-> bd, differ |-> TRUE]
    ELSE [bd |-> bd, differ |-> FALSE]

\* next_run_range that keeps the start of the previous run
next_run_range_keep_start(range) == [start |-> range.start, end |-> range.end + 1]

\* BufferedState::Init: the tail batch's range moves to the first row after the
\* previous run
next_run_range(range) == [start |-> range.end, end |-> range.end + 1]

\* buffered_step whose PollingFirst goes to PollingRest on an empty batch too
buffered_step_rest_on_empty(m) ==
    CASE m.buffered_state = "Init" ->
            LET rest == pop_consumed(m.buffered_data.batches)
                n == Len(rest)
            IN IF rest = <<>>
               THEN [m |-> [m EXCEPT !.buffered_data.batches = rest,
                                     !.buffered_state = "PollingFirst"],
                     ret |-> "continue"]
               ELSE [m |-> [m EXCEPT !.buffered_data.batches =
                                         [rest EXCEPT ![n].range = next_run_range(@)],
                                     !.buffered_state = "PollingRest"],
                     ret |-> "continue"]
      [] m.buffered_state = "PollingFirst" ->
            LET p == poll_next_unpin(m.buffered)
                m1 == [m EXCEPT !.buffered = p.rest]
            IN CASE p.res = "pending" -> [m |-> m1, ret |-> "pending"]
                 [] p.res = "err" -> [m |-> m1, ret |-> "err", error |-> p.error]
                 [] p.res = "none" ->
                        [m |-> [m1 EXCEPT !.buffered_state = "Exhausted"], ret |-> "none"]
                 [] OTHER ->
                        IF Len(p.batch) > 0
                        THEN [m |-> [m1 EXCEPT !.buffered_data.batches =
                                                   Append(@, BufferedBatch_new(p.batch, 0, 1, m.on_buffered)),
                                               !.buffered_state = "PollingRest"],
                              ret |-> "continue"]
                        ELSE [m |-> [m1 EXCEPT !.buffered_state = "PollingRest"],
                              ret |-> "continue"]
      [] m.buffered_state = "PollingRest" ->
            IF m.buffered_data.batches = <<>>
            THEN [m |-> [m EXCEPT !.panicked = TRUE], ret |-> "panic"]
            ELSE IF tail_batch(m.buffered_data).range.end
                      < Len(tail_batch(m.buffered_data).batch)
            THEN LET g == grow_run(m.buffered_data)
                 IN IF g.differ
                    THEN [m |-> [m EXCEPT !.buffered_data = g.bd,
                                          !.buffered_state = "Ready"],
                          ret |-> "some"]
                    ELSE [m |-> [m EXCEPT !.buffered_data = g.bd], ret |-> "continue"]
            ELSE LET p == poll_next_unpin(m.buffered)
                     m1 == [m EXCEPT !.buffered = p.rest]
                 IN CASE p.res = "pending" -> [m |-> m1, ret |-> "pending"]
                      [] p.res = "err" -> [m |-> m1, ret |-> "err", error |-> p.error]
                      [] p.res = "none" ->
                             [m |-> [m1 EXCEPT !.buffered_state = "Ready"],
                              ret |-> "continue"]
                      [] OTHER ->
                             IF Len(p.batch) > 0
                             THEN [m |-> [m1 EXCEPT !.buffered_data.batches =
                                                 Append(@, BufferedBatch_new(p.batch, 0, 0, m.on_buffered))],
                                   ret |-> "continue"]
                             ELSE [m |-> m1, ret |-> "continue"]
      [] m.buffered_state = "Ready" -> [m |-> m, ret |-> "some"]
      [] OTHER -> [m |-> m, ret |-> "none"]

\* buffered_step whose PollingRest queues a batch with the range 1..1
buffered_step_skips_first_row(m) ==
    CASE m.buffered_state = "Init" ->
            LET rest == pop_consumed(m.buffered_data.batches)
                n == Len(rest)
            IN IF rest = <<>>
               THEN [m |-> [m EXCEPT !.buffered_data.batches = rest,
                                     !.buffered_state = "PollingFirst"],
                     ret |-> "continue"]
               ELSE [m |-> [m EXCEPT !.buffered_data.batches =
                                         [rest EXCEPT ![n].range = next_run_range(@)],
                                     !.buffered_state = "PollingRest"],
                     ret |-> "continue"]
      [] m.buffered_state = "PollingFirst" ->
            LET p == poll_next_unpin(m.buffered)
                m1 == [m EXCEPT !.buffered = p.rest]
            IN CASE p.res = "pending" -> [m |-> m1, ret |-> "pending"]
                 [] p.res = "err" -> [m |-> m1, ret |-> "err", error |-> p.error]
                 [] p.res = "none" ->
                        [m |-> [m1 EXCEPT !.buffered_state = "Exhausted"], ret |-> "none"]
                 [] OTHER ->
                        IF Len(p.batch) > 0
                        THEN [m |-> [m1 EXCEPT !.buffered_data.batches =
                                                   Append(@, BufferedBatch_new(p.batch, 0, 1, m.on_buffered)),
                                               !.buffered_state = "PollingRest"],
                              ret |-> "continue"]
                        ELSE [m |-> m1, ret |-> "continue"]
      [] m.buffered_state = "PollingRest" ->
            IF m.buffered_data.batches = <<>>
            THEN [m |-> [m EXCEPT !.panicked = TRUE], ret |-> "panic"]
            ELSE IF tail_batch(m.buffered_data).range.end
                      < Len(tail_batch(m.buffered_data).batch)
            THEN LET g == grow_run(m.buffered_data)
                 IN IF g.differ
                    THEN [m |-> [m EXCEPT !.buffered_data = g.bd,
                                          !.buffered_state = "Ready"],
                          ret |-> "some"]
                    ELSE [m |-> [m EXCEPT !.buffered_data = g.bd], ret |-> "continue"]
            ELSE LET p == poll_next_unpin(m.buffered)
                     m1 == [m EXCEPT !.buffered = p.rest]
                 IN CASE p.res = "pending" -> [m |-> m1, ret |-> "pending"]
                      [] p.res = "err" -> [m |-> m1, ret |-> "err", error |-> p.error]
                      [] p.res = "none" ->
                             [m |-> [m1 EXCEPT !.buffered_state = "Ready"],
                              ret |-> "continue"]
                      [] OTHER ->
                             IF Len(p.batch) > 0
                             THEN [m |-> [m1 EXCEPT !.buffered_data.batches =
                                                 Append(@, BufferedBatch_new(p.batch, 1, 1, m.on_buffered))],
                                   ret |-> "continue"]
                             ELSE [m |-> m1, ret |-> "continue"]
      [] m.buffered_state = "Ready" -> [m |-> m, ret |-> "some"]
      [] OTHER -> [m |-> m, ret |-> "none"]

\* one iteration of the loop of poll_buffered_batches
buffered_step(m) ==
    CASE m.buffered_state = "Init" ->
            LET rest == pop_consumed(m.buffered_data.batches)
                n == Len(rest)
            IN IF rest = <<>>
               THEN [m |-> [m EXCEPT !.buffered_data.batches = rest,
                                     !.buffered_state = "PollingFirst"],
                     ret |-> "continue"]
               ELSE [m |-> [m EXCEPT !.buffered_data.batches =
                                         [rest EXCEPT ![n].range = next_run_range(@)],
                                     !.buffered_state = "PollingRest"],
                     ret |-> "continue"]
      [] m.buffered_state = "PollingFirst" ->
            LET p == poll_next_unpin(m.buffered)
                m1 == [m EXCEPT !.buffered = p.rest]
            IN CASE p.res = "pending" -> [m |-> m1, ret |-> "pending"]
                 [] p.res = "err" -> [m |-> m1, ret |-> "err", error |-> p.error]
                 [] p.res = "none" ->
                        [m |-> [m1 EXCEPT !.buffered_state = "Exhausted"], ret |-> "none"]
                 [] OTHER ->
                        IF Len(p.batch) > 0
                        THEN [m |-> [m1 EXCEPT !.buffered_data.batches =
                                                   Append(@, BufferedBatch_new(p.batch, 0, 1, m.on_buffered)),
                                               !.buffered_state = "PollingRest"],
                              ret |-> "continue"]
                        ELSE [m |-> m1, ret |-> "continue"]
      [] m.buffered_state = "PollingRest" ->
            IF m.buffered_data.batches = <<>>
            THEN [m |-> [m EXCEPT !.panicked = TRUE], ret |-> "panic"]
            ELSE IF tail_batch(m.buffered_data).range.end
                      < Len(tail_batch(m.buffered_data).batch)
            THEN LET g == grow_run(m.buffered_data)
                 IN IF g.differ
                    THEN [m |-> [m EXCEPT !.buffered_data = g.bd,
                                          !.buffered_state = "Ready"],
                          ret |-> "some"]
                    ELSE [m |-> [m EXCEPT !.buffered_data = g.bd], ret |-> "continue"]
            ELSE LET p == poll_next_unpin(m.buffered)
                     m1 == [m EXCEPT !.buffered = p.rest]
                 IN CASE p.res = "pending" -> [m |-> m1, ret |-> "pending"]
                      [] p.res = "err" -> [m |-> m1, ret |-> "err", error |-> p.error]
                      [] p.res = "none" ->
                             [m |-> [m1 EXCEPT !.buffered_state = "Ready"],
                              ret |-> "continue"]
                      [] OTHER ->
                             IF Len(p.batch) > 0
                             THEN [m |-> [m1 EXCEPT !.buffered_data.batches =
                                                 Append(@, BufferedBatch_new(p.batch, 0, 0, m.on_buffered))],
                                   ret |-> "continue"]
                             ELSE [m |-> m1, ret |-> "continue"]
      [] m.buffered_state = "Ready" -> [m |-> m, ret |-> "some"]
      [] OTHER -> [m |-> m, ret |-> "none"]

RECURSIVE poll_buffered_batches(_)
poll_buffered_batches(m) ==
    LET r == buffered_step(m)
    IN IF r.ret = "continue" THEN poll_buffered_batches(r.m) ELSE r

\* ---------------------------------------------------------------- join_partial
\* compare_streamed_buffered that answers Equal when no buffered row is held
compare_streamed_buffered_empty_equal(m) ==
    IF m.streamed_state = "Exhausted" THEN "Greater"
    ELSE IF ~has_buffered_rows(m.buffered_data) THEN "Equal"
    ELSE compare_join_arrays(m.streamed_join_arrays, m.streamed_idx,
                             head_batch(m.buffered_data).join_arrays,
                             head_batch(m.buffered_data).range.start,
                             m.sort_options, m.null_equals_null)

\* Get comparison result of streamed row and buffered batches
compare_streamed_buffered(m) ==
    IF m.streamed_state = "Exhausted" THEN "Greater"
    ELSE IF ~has_buffered_rows(m.buffered_data) THEN "Less"
    ELSE compare_join_arrays(m.streamed_join_arrays, m.streamed_idx,
                             head_batch(m.buffered_data).join_arrays,
                             head_batch(m.buffered_data).range.start,
                             m.sort_options, m.null_equals_null)

\* join_streamed with Left missing from the Less arm
join_streamed_no_left(m) ==
    CASE m.current_ordering = "Less" ->
            IF m.join_type \in {"Right", "Full", "Anti"}
            THEN ~m.streamed_joined ELSE FALSE
      [] m.current_ordering = "Equal" ->
            IF m.join_type \in {"Inner", "Left", "Right", "Full"} THEN TRUE
            ELSE IF m.join_type = "Semi" THEN ~m.streamed_joined ELSE FALSE
      [] OTHER -> FALSE

\* join_streamed with Anti missing from the Less arm
join_streamed_no_anti(m) ==
    CASE m.current_ordering = "Less" ->
            IF m.join_type \in {"Left", "Right", "Full"}
            THEN ~m.streamed_joined ELSE FALSE
      [] m.current_ordering = "Equal" ->
            IF m.join_type \in {"Inner", "Left", "Right", "Full"} THEN TRUE
            ELSE IF m.join_type = "Semi" THEN ~m.streamed_joined ELSE FALSE
      [] OTHER -> FALSE

\* join_streamed with Semi added to the Less arm
join_streamed_semi_less(m) ==
    CASE m.current_ordering = "Less" ->
            IF m.join_type \in {"Left", "Right", "Full", "Anti", "Semi"}
            THEN ~m.streamed_joined ELSE FALSE
      [] m.current_ordering = "Equal" ->
            IF m.join_type \in {"Inner", "Left", "Right", "Full"} THEN TRUE
            ELSE IF m.join_type = "Semi" THEN ~m.streamed_joined ELSE FALSE
      [] OTHER -> FALSE

\* join_buffered that ignores buffered_joined in the Greater arm
join_buffered_ignore_joined(m) ==
    CASE m.current_ordering = "Less" -> FALSE
      [] m.current_ordering = "Equal" -> m.join_type \in {"Inner", "Left", "Right", "Full"}
      [] OTHER -> m.join_type = "Full"

\* join_streamed that takes the streamed row of an Inner join on Greater
join_streamed_inner_greater(m) ==
    CASE m.current_ordering = "Less" ->
            IF m.join_type \in {"Left", "Right", "Full", "Anti"}
            THEN ~m.streamed_joined ELSE FALSE
      [] m.current_ordering = "Equal" ->
            IF m.join_type \in {"Inner", "Left", "Right", "Full"} THEN TRUE
            ELSE IF m.join_type = "Semi" THEN ~m.streamed_joined ELSE FALSE
      [] OTHER -> IF m.join_type = "Inner" THEN ~m.streamed_joined ELSE FALSE

\* does join_partial take the streamed row
join_streamed(m) ==
    CASE m.current_ordering = "Less" ->
            IF m.join_type \in {"Left", "Right", "Full", "Anti"}
            THEN ~m.streamed_joined ELSE FALSE
      [] m.current_ordering = "Equal" ->
            IF m.join_type \in {"Inner", "Left", "Right", "Full"} THEN TRUE
            ELSE IF m.join_type = "Semi" THEN ~m.streamed_joined ELSE FALSE
      [] OTHER -> FALSE

\* join_buffered with Right added to the Greater arm
join_buffered_right_greater(m) ==
    CASE m.current_ordering = "Less" -> FALSE
      [] m.current_ordering = "Equal" -> m.join_type \in {"Inner", "Left", "Right", "Full"}
      [] OTHER -> IF m.join_type \in {"Full", "Right"} THEN ~m.buffered_joined ELSE FALSE

\* does join_partial take the buffered run
join_buffered(m) ==
    CASE m.current_ordering = "Less" -> FALSE
      [] m.current_ordering = "Equal" -> m.join_type \in {"Inner", "Left", "Right", "Full"}
      [] OTHER -> IF m.join_type = "Full" THEN ~m.buffered_joined ELSE FALSE

\* join_scan without the batch_size test of its loop
RECURSIVE join_scan_unbounded(_, _, _)
join_scan_unbounded(m, js, indices) ==
    IF ~scanning_finished(m.buffered_data)
    THEN LET idx == [s_some |-> js, s |-> IF js THEN m.streamed_idx ELSE 0,
                     b_some |-> TRUE,
                     b |-> m.buffered_data.scanning_batch_idx,
                     r |-> scanning_idx(m.buffered_data)]
             bd1 == scanning_advance(m.buffered_data)
             m1 == [m EXCEPT !.output_size = @ + 1, !.buffered_data = bd1]
             m2 == IF scanning_finished(bd1)
                   THEN [m1 EXCEPT !.streamed_joined = js, !.buffered_joined = TRUE]
                   ELSE m1
         IN join_scan_unbounded(m2, js, Append(indices, idx))
    ELSE [m |-> m, output_indices |-> indices]

\* join_scan that sets the joined flags at every row of the run
RECURSIVE join_scan_joined_early(_, _, _)
join_scan_joined_early(m, js, indices) ==
    IF ~scanning_finished(m.buffered_data) /\ m.output_size < m.batch_size
    THEN LET idx == [s_some |-> js, s |-> IF js THEN m.streamed_idx ELSE 0,
                     b_some |-> TRUE,
                     b |-> m.buffered_data.scanning_batch_idx,
                     r |-> scanning_idx(m.buffered_data)]
             bd1 == scanning_advance(m.buffered_data)
             m1 == [m EXCEPT !.output_size = @ + 1, !.buffered_data = bd1]
             m2 == [m1 EXCEPT !.streamed_joined = js, !.buffered_joined = TRUE]
         IN join_scan_joined_early(m2, js, Append(indices, idx))
    ELSE [m |-> m, output_indices |-> indices]

\* the while loop of join_partial: pair the run with the streamed row (or null)
RECURSIVE join_scan(_, _, _)
join_scan(m, js, indices) ==
    IF ~scanning_finished(m.buffered_data) /\ m.output_size < m.batch_size
    THEN LET idx == [s_some |-> js, s |-> IF js THEN m.streamed_idx ELSE 0,
                     b_some |-> TRUE,
                     b |-> m.buffered_data.scanning_batch_idx,
                     r |-> scanning_idx(m.buffered_data)]
             bd1 == scanning_advance(m.buffered_data)
             m1 == [m EXCEPT !.output_size = @ + 1, !.buffered_data = bd1]
             m2 == IF scanning_finished(bd1)
                   THEN [m1 EXCEPT !.streamed_joined = js, !.buffered_joined = TRUE]
                   ELSE m1
         IN join_scan(m2, js, Append(indices, idx))
    ELSE [m |-> m, output_indices |-> indices]

\* join_partial that pads the streamed row without finishing the scan
join_partial_finish_late(m) ==
    LET js == join_streamed(m)
        jb == join_buffered(m)
    IN IF ~js /\ ~jb
       THEN [m |-> [m EXCEPT !.buffered_data = scanning_finish(@)], output_indices |-> <<>>]
       ELSE IF jb
       THEN join_scan(m, js, <<>>)
       ELSE [m |-> [m EXCEPT !.output_size = @ + 1,
                             !.streamed_joined = TRUE],
             output_indices |-> <<[s_some |-> TRUE, s |-> m.streamed_idx,
                                   b_some |-> FALSE, b |-> 0, r |-> 0]>>]

\* join_partial that counts an output row when it joins nothing
join_partial_counts_unjoined(m) ==
    LET js == join_streamed(m)
        jb == join_buffered(m)
    IN IF ~js /\ ~jb
       THEN [m |-> [m EXCEPT !.buffered_data = scanning_finish(@), !.output_size = @ + 1],
             output_indices |-> <<>>]
       ELSE IF jb
       THEN join_scan(m, js, <<>>)
       ELSE [m |-> [m EXCEPT !.output_size = @ + 1,
                             !.buffered_data = scanning_finish(@),
                             !.streamed_joined = TRUE],
             output_indices |-> <<[s_some |-> TRUE, s |-> m.streamed_idx,
                                   b_some |-> FALSE, b |-> 0, r |-> 0]>>]

\* join_partial: the indices of one JoinOutput step
join_partial(m) ==
    LET js == join_streamed(m)
        jb == join_buffered(m)
    IN IF ~js /\ ~jb
       THEN [m |-> [m EXCEPT !.buffered_data = scanning_finish(@)], output_indices |-> <<>>]
       ELSE IF jb
       THEN join_scan(m, js, <<>>)
       ELSE [m |-> [m EXCEPT !.output_size = @ + 1,
                             !.buffered_data = scanning_finish(@),
                             !.streamed_joined = TRUE],
             output_indices |-> <<[s_some |-> TRUE, s |-> m.streamed_idx,
                                   b_some |-> FALSE, b |-> 0, r |-> 0]>>]

\* ---------------------------------------------------------------- output_partial
\* An output row is the tuple of its column groups, each the id of the input
\* row it was gathered from, NullRow for a group of null columns.
NullRow == 0

\* the for loop shared by the two *_joining_buffered: cut the indices into
\* the calls of output(buffered_batch_idx, indices)
RECURSIVE group_indices(_, _, _, _)
group_indices(indices, cur, acc, out) ==
    IF indices = <<>>
    THEN IF acc = <<>> THEN out ELSE Append(out, [bidx |-> cur, indices |-> acc])
    ELSE LET index == Head(indices)
         IN IF index.b # cur
            THEN group_indices(Tail(indices), index.b, <<index>>,
                               IF acc = <<>> THEN out
                               ELSE Append(out, [bidx |-> cur, indices |-> acc]))
            ELSE group_indices(Tail(indices), cur, Append(acc, index), out)

streamed_row(m, index) == m.streamed_batch[index.s + 1].id

buffered_row(m, bidx, index) == m.buffered_data.batches[bidx + 1].batch[index.r + 1].id

output_partial_streamed_joining_buffered(m, output_indices) ==
    LET Both(index) == index.s_some /\ index.b_some
        groups == group_indices(SelectSeq(output_indices, Both), 0, <<>>, <<>>)
        record_batch(g) ==
            [k \in DOMAIN g.indices |->
                IF m.join_type = "Right"
                THEN <<buffered_row(m, g.bidx, g.indices[k]), streamed_row(m, g.indices[k])>>
                ELSE <<streamed_row(m, g.indices[k]), buffered_row(m, g.bidx, g.indices[k])>>]
    IN IF groups # <<>> /\ m.join_type \in {"Semi", "Anti"}
       THEN [m EXCEPT !.panicked = TRUE]
       ELSE [m EXCEPT !.output_record_batches =
                          @ \o [g \in DOMAIN groups |-> record_batch(groups[g])]]

output_partial_streamed_joining_null(m, output_indices) ==
    LET OnlyS(index) == index.s_some /\ ~index.b_some
        sel == SelectSeq(output_indices, OnlyS)
        record_batch ==
            [k \in DOMAIN sel |->
                CASE m.join_type = "Right" -> <<NullRow, streamed_row(m, sel[k])>>
                  [] m.join_type \in {"Semi", "Anti"} -> <<streamed_row(m, sel[k])>>
                  [] OTHER -> <<streamed_row(m, sel[k]), NullRow>>]
    IN IF m.join_type = "Inner"
       THEN [m EXCEPT !.panicked = TRUE]
       ELSE IF sel # <<>>
       THEN [m EXCEPT !.output_record_batches = Append(@, record_batch)]
       ELSE m

output_partial_null_joining_buffered(m, output_indices) ==
    LET OnlyB(index) == ~index.s_some /\ index.b_some
        groups == group_indices(SelectSeq(output_indices, OnlyB), 0, <<>>, <<>>)
        record_batch(g) ==
            [k \in DOMAIN g.indices |-> <<NullRow, buffered_row(m, g.bidx, g.indices[k])>>]
    IN IF groups # <<>> /\ m.join_type # "Full"
       THEN [m EXCEPT !.panicked = TRUE]
       ELSE [m EXCEPT !.output_record_batches =
                          @ \o [g \in DOMAIN groups |-> record_batch(groups[g])]]

\* output_partial that leaves out streamed_joining_null for Left and Right
output_partial_outer_no_null(m, output_indices) ==
    CASE m.join_type \in {"Inner", "Left", "Right"} ->
            output_partial_streamed_joining_buffered(m, output_indices)
      [] m.join_type = "Full" ->
            output_partial_null_joining_buffered(
                output_partial_streamed_joining_null(
                    output_partial_streamed_joining_buffered(m, output_indices),
                    output_indices),
                output_indices)
      [] OTHER -> output_partial_streamed_joining_null(m, output_indices)

\* SMJStream::output_partial
output_partial(m, output_indices) ==
    CASE m.join_type = "Inner" ->
            output_partial_streamed_joining_buffered(m, output_indices)
      [] m.join_type \in {"Left", "Right"} ->
            output_partial_streamed_joining_null(
                output_partial_streamed_joining_buffered(m, output_indices), output_indices)
      [] m.join_type = "Full" ->
            output_partial_null_joining_buffered(
                output_partial_streamed_joining_null(
                    output_partial_streamed_joining_buffered(m, output_indices),
                    output_indices),
                output_indices)
      [] OTHER -> output_partial_streamed_joining_null(m, output_indices)

\* combine_batches, then clear the staging area
output_record_batch_and_reset(m) ==
    IF m.output_record_batches = <<>>
    THEN [m |-> [m EXCEPT !.panicked = TRUE], record_batch |-> <<>>]
    ELSE [m |-> [m EXCEPT !.output_size = 0, !.output_record_batches = <<>>],
          record_batch |-> Flatten(m.output_record_batches)]

\* ---------------------------------------------------------------- poll_next
\* what one iteration of poll_next leaves: the stream, how the iteration ended
\* and, when it returned an item, the item (a record batch or an error)
Ret(m, ret, item) == [m |-> m, ret |-> ret, item |-> item]

\* outer_init that lets the streamed cursor advance on Greater as well
outer_init_always_streamed(m) ==
    LET streamed_exhausted == m.streamed_state = "Exhausted"
        buffered_exhausted == m.buffered_state = "Exhausted"
    IN IF streamed_exhausted /\ buffered_exhausted
       THEN [m EXCEPT !.state = "Exhausted"]
       ELSE IF m.current_ordering \in {"Less", "Equal"}
       THEN IF ~streamed_exhausted
            THEN [m EXCEPT !.streamed_joined = FALSE, !.streamed_state = "Init",
                           !.state = "Polling"]
            ELSE [m EXCEPT !.state = "Polling"]
       ELSE IF ~buffered_exhausted
            THEN [m EXCEPT !.buffered_joined = FALSE, !.buffered_state = "Init",
                           !.streamed_joined = FALSE,
                           !.streamed_state = IF streamed_exhausted THEN @ ELSE "Init",
                           !.state = "Polling"]
            ELSE [m EXCEPT !.state = "Polling"]

\* outer_init that on Greater restarts the streamed cursor, Exhausted or not
outer_init_restarts_streamed(m) ==
    LET streamed_exhausted == m.streamed_state = "Exhausted"
        buffered_exhausted == m.buffered_state = "Exhausted"
    IN IF streamed_exhausted /\ buffered_exhausted
       THEN [m EXCEPT !.state = "Exhausted"]
       ELSE IF m.current_ordering \in {"Less", "Equal"}
       THEN IF ~streamed_exhausted
            THEN [m EXCEPT !.streamed_joined = FALSE, !.streamed_state = "Init",
                           !.state = "Polling"]
            ELSE [m EXCEPT !.state = "Polling"]
       ELSE IF ~buffered_exhausted
            THEN [m EXCEPT !.buffered_joined = FALSE, !.buffered_state = "Init",
                           !.streamed_state = IF streamed_exhausted THEN "Init" ELSE @,
                           !.state = "Polling"]
            ELSE [m EXCEPT !.state = "Polling"]

\* outer_init that on Equal lets the buffered accumulator advance
outer_init_equal_advances_buffered(m) ==
    LET streamed_exhausted == m.streamed_state = "Exhausted"
        buffered_exhausted == m.buffered_state = "Exhausted"
    IN IF streamed_exhausted /\ buffered_exhausted
       THEN [m EXCEPT !.state = "Exhausted"]
       ELSE IF m.current_ordering = "Less"
       THEN IF ~streamed_exhausted
            THEN [m EXCEPT !.streamed_joined = FALSE, !.streamed_state = "Init",
                           !.state = "Polling"]
            ELSE [m EXCEPT !.state = "Polling"]
       ELSE IF ~buffered_exhausted
            THEN [m EXCEPT !.buffered_joined = FALSE, !.buffered_state = "Init",
                           !.state = "Polling"]
            ELSE [m EXCEPT !.state = "Polling"]

\* SMJState::Init
outer_init(m) ==
    LET streamed_exhausted == m.streamed_state = "Exhausted"
        buffered_exhausted == m.buffered_state = "Exhausted"
    IN IF streamed_exhausted /\ buffered_exhausted
       THEN [m EXCEPT !.state = "Exhausted"]
       ELSE IF m.current_ordering \in {"Less", "Equal"}
       THEN IF ~streamed_exhausted
            THEN [m EXCEPT !.streamed_joined = FALSE, !.streamed_state = "Init",
                           !.state = "Polling"]
            ELSE [m EXCEPT !.state = "Polling"]
       ELSE IF ~buffered_exhausted
            THEN [m EXCEPT !.buffered_joined = FALSE, !.buffered_state = "Init",
                           !.state = "Polling"]
            ELSE [m EXCEPT !.state = "Polling"]

\* outer_polling that, when the buffered input answers Pending, forgets what the
\* call did to the cursors before it
outer_polling_pending_forgets(m) ==
    LET rs == IF m.streamed_state \notin {"Exhausted", "Ready"}
              THEN poll_streamed_row(m) ELSE [m |-> m, ret |-> "some"]
    IN IF rs.ret = "err" THEN Ret(rs.m, "err", rs.error)
       ELSE IF rs.ret \in {"pending", "panic"} THEN Ret(rs.m, rs.ret, <<>>)
       ELSE LET rb == IF rs.m.buffered_state \notin {"Exhausted", "Ready"}
                      THEN poll_buffered_batches(rs.m) ELSE [m |-> rs.m, ret |-> "some"]
            IN IF rb.ret = "err" THEN Ret(rb.m, "err", rb.error)
               ELSE IF rb.ret = "pending"
               THEN Ret([m EXCEPT !.streamed = rb.m.streamed, !.buffered = rb.m.buffered],
                        "pending", <<>>)
               ELSE IF rb.ret = "panic" THEN Ret(rb.m, rb.ret, <<>>)
               ELSE IF rb.m.streamed_state = "Exhausted" /\ rb.m.buffered_state = "Exhausted"
               THEN Ret([rb.m EXCEPT !.state = "Exhausted"], "continue", <<>>)
               ELSE Ret([rb.m EXCEPT !.current_ordering = compare_streamed_buffered(rb.m),
                                     !.state = "JoinOutput"], "continue", <<>>)

\* outer_polling that swallows an error of the buffered input and retries
outer_polling_swallow_error(m) ==
    LET rs == IF m.streamed_state \notin {"Exhausted", "Ready"}
              THEN poll_streamed_row(m) ELSE [m |-> m, ret |-> "some"]
    IN IF rs.ret = "err" THEN Ret(rs.m, "err", rs.error)
       ELSE IF rs.ret \in {"pending", "panic"} THEN Ret(rs.m, rs.ret, <<>>)
       ELSE LET rb == IF rs.m.buffered_state \notin {"Exhausted", "Ready"}
                      THEN poll_buffered_batches(rs.m) ELSE [m |-> rs.m, ret |-> "some"]
            IN IF rb.ret = "err" THEN Ret(rb.m, "continue", <<>>)
               ELSE IF rb.ret \in {"pending", "panic"} THEN Ret(rb.m, rb.ret, <<>>)
               ELSE IF rb.m.streamed_state = "Exhausted" /\ rb.m.buffered_state = "Exhausted"
               THEN Ret([rb.m EXCEPT !.state = "Exhausted"], "continue", <<>>)
               ELSE Ret([rb.m EXCEPT !.current_ordering = compare_streamed_buffered(rb.m),
                                     !.state = "JoinOutput"], "continue", <<>>)

\* SMJState::Polling: the streamed side is polled unless Exhausted or Ready
polling_streamed(m) ==
    IF m.streamed_state \notin {"Exhausted", "Ready"}
    THEN poll_streamed_row(m) ELSE [m |-> m, ret |-> "some"]

\* SMJState::Polling: the buffered side is polled unless Exhausted or Ready
polling_buffered(m) ==
    IF m.buffered_state \notin {"Exhausted", "Ready"}
    THEN poll_buffered_batches(m) ELSE [m |-> m, ret |-> "some"]

\* SMJState::Polling, after the buffered side answered rb
polling_compare(rb) ==
    IF rb.ret = "err" THEN Ret(rb.m, "err", rb.error)
    ELSE IF rb.ret \in {"pending", "panic"} THEN Ret(rb.m, rb.ret, <<>>)
    ELSE IF rb.m.streamed_state = "Exhausted" /\ rb.m.buffered_state = "Exhausted"
    THEN Ret([rb.m EXCEPT !.state = "Exhausted"], "continue", <<>>)
    ELSE Ret([rb.m EXCEPT !.current_ordering = compare_streamed_buffered(rb.m),
                          !.state = "JoinOutput"], "continue", <<>>)

\* SMJState::Polling, after the streamed side answered rs
polling_after_streamed(rs) ==
    IF rs.ret = "err" THEN Ret(rs.m, "err", rs.error)
    ELSE IF rs.ret \in {"pending", "panic"} THEN Ret(rs.m, rs.ret, <<>>)
    ELSE polling_compare(polling_buffered(rs.m))

\* SMJState::Polling
outer_polling(m) == polling_after_streamed(polling_streamed(m))

\* outer_join_output that returns to Init after a flush
outer_join_output_drop_scan(m) ==
    LET j == join_partial(m)
        m1 == IF j.output_indices # <<>> THEN output_partial(j.m, j.output_indices) ELSE j.m
    IN IF m1.panicked THEN Ret(m1, "panic", <<>>)
       ELSE IF m1.output_size < m1.batch_size
       THEN IF scanning_finished(m1.buffered_data)
            THEN Ret([m1 EXCEPT !.buffered_data = scanning_reset(@), !.state = "Init"],
                     "continue", <<>>)
            ELSE Ret(m1, "continue", <<>>)
       ELSE LET o == output_record_batch_and_reset(m1)
            IN IF o.m.panicked THEN Ret(o.m, "panic", <<>>)
               ELSE Ret([o.m EXCEPT !.buffered_data = scanning_reset(@), !.state = "Init"],
                        "batch", o.record_batch)

\* outer_join_output that flushes whatever is staged
outer_join_output_flush_early(m) ==
    LET j == join_partial(m)
        m1 == IF j.output_indices # <<>> THEN output_partial(j.m, j.output_indices) ELSE j.m
    IN IF m1.panicked THEN Ret(m1, "panic", <<>>)
       ELSE IF m1.output_size < 1
       THEN IF scanning_finished(m1.buffered_data)
            THEN Ret([m1 EXCEPT !.buffered_data = scanning_reset(@), !.state = "Init"],
                     "continue", <<>>)
            ELSE Ret(m1, "continue", <<>>)
       ELSE LET o == output_record_batch_and_reset(m1)
            IN IF o.m.panicked THEN Ret(o.m, "panic", <<>>)
               ELSE Ret(o.m, "batch", o.record_batch)

\* outer_join_output that returns to Init without resetting the scan cursors
outer_join_output_keeps_cursors(m) ==
    LET j == join_partial(m)
        m1 == IF j.output_indices # <<>> THEN output_partial(j.m, j.output_indices) ELSE j.m
    IN IF m1.panicked THEN Ret(m1, "panic", <<>>)
       ELSE IF m1.output_size < m1.batch_size
       THEN IF scanning_finished(m1.buffered_data)
            THEN Ret([m1 EXCEPT !.state = "Init"], "continue", <<>>)
            ELSE Ret(m1, "continue", <<>>)
       ELSE LET o == output_record_batch_and_reset(m1)
            IN IF o.m.panicked THEN Ret(o.m, "panic", <<>>)
               ELSE Ret(o.m, "batch", o.record_batch)

\* SMJState::JoinOutput
outer_join_output(m) ==
    LET j == join_partial(m)
        m1 == IF j.output_indices # <<>> THEN output_partial(j.m, j.output_indices) ELSE j.m
    IN IF m1.panicked THEN Ret(m1, "panic", <<>>)
       ELSE IF m1.output_size < m1.batch_size
       THEN IF scanning_finished(m1.buffered_data)
            THEN Ret([m1 EXCEPT !.buffered_data = scanning_reset(@), !.state = "Init"],
                     "continue", <<>>)
            ELSE Ret(m1, "continue", <<>>)
       ELSE LET o == output_record_batch_and_reset(m1)
            IN IF o.m.panicked THEN Ret(o.m, "panic", <<>>)
               ELSE Ret(o.m, "batch", o.record_batch)

\* outer_exhausted that answers Pending instead of the end
outer_exhausted_never_ends(m) ==
    IF m.output_record_batches # <<>>
    THEN LET o == output_record_batch_and_reset(m)
         IN Ret(o.m, "batch", o.record_batch)
    ELSE Ret(m, "pending", <<>>)

\* outer_exhausted that ends the stream with rows still staged
outer_exhausted_drops_staged(m) == Ret(m, "eos", <<>>)

\* SMJState::Exhausted
outer_exhausted(m) ==
    IF m.output_record_batches # <<>>
    THEN LET o == output_record_batch_and_reset(m)
         IN Ret(o.m, "batch", o.record_batch)
    ELSE Ret(m, "eos", <<>>)

\* one iteration of the loop of poll_next
outer_step(m) ==
    CASE m.state = "Init" -> Ret(outer_init(m), "continue", <<>>)
      [] m.state = "Polling" -> outer_polling(m)
      [] m.state = "JoinOutput" -> outer_join_output(m)
      [] OTHER -> outer_exhausted(m)

RECURSIVE poll_next(_)
poll_next(m) ==
    LET r == outer_step(m)
    IN IF r.ret = "continue" THEN poll_next(r.m) ELSE r

\* ---------------------------------------------------------------- inputs
\* a comes strictly before b in the order the upstream sort produces
SortBefore(a, b, so) ==
    CASE a = NULL /\ b = NULL -> FALSE
      [] a = NULL -> so.nulls_first
      [] b = NULL -> ~so.nulls_first
      [] OTHER -> IF so.descending THEN a > b ELSE a < b

RECURSIVE SortedLE(_, _, _, _)
SortedLE(c, k1, k2, sos) ==
    IF c > Len(sos) THEN TRUE
    ELSE IF SortBefore(k1[c], k2[c], sos[c]) THEN TRUE
    ELSE IF SortBefore(k2[c], k1[c], sos[c]) THEN FALSE
    ELSE SortedLE(c + 1, k1, k2, sos)

\* the key sequences of a child sorted by sos, one key cell per sort option
SortedKeySeqs(sos, cells) ==
    {ks \in UNION {[1..n -> [1..Len(sos) -> cells]] : n \in 0..MaxRows} :
        \A i \in 1..(Len(ks) - 1) : SortedLE(1, ks[i], ks[i + 1], sos)}

\* the rows of a child: row i has id i
RowsOf(ks) == [i \in DOMAIN ks |-> [id |-> i, key |-> ks[i]]]

\* a child delivers its rows in two batches, the first of c rows (all of them
\* when it has fewer); either batch may be empty
InputStream(ks, c) ==
    <<BatchItem(SubSeq(RowsOf(ks), 1, Min(c, Len(ks)))),
      BatchItem(SubSeq(RowsOf(ks), Min(c, Len(ks)) + 1, Len(ks)))>>

AllRows(script) == Flatten([i \in DOMAIN script |-> script[i].rows])

\* the sorted key sequences whose length is in lens
SortedKeySeqsOf(lens, sos, cells) ==
    {ks \in UNION {[1..n -> [1..Len(sos) -> cells]] : n \in lens} :
        \A i \in 1..(Len(ks) - 1) : SortedLE(1, ks[i], ks[i + 1], sos)}

\* the script of a child that answers ins[i] before it delivers script[i], and
\* ins[Len(script) + 1] before its end-of-stream
Interleave(script, ins) ==
    Flatten([i \in DOMAIN script |-> ins[i] \o <<script[i]>>]) \o ins[Len(script) + 1]

\* the schedules of a child of two batches: nothing, or x before one pull, or x
\* before every pull
Schedules(x) ==
    {[i \in 1..3 |-> <<>>], [i \in 1..3 |-> <<x>>]}
        \cup {[i \in 1..3 |-> IF i = k THEN <<x>> ELSE <<>>] : k \in 1..3}

\* the batches of a script, without its Pending answers
Delivered(script) == SelectSeq(script, LAMBDA item : item.kind # "pending")

\* ---------------------------------------------------------------- specification
VARIABLES
    smj,          \* the SMJStream
    on,           \* the join's pairs (left key column, right key column)
    left_input,   \* what the left child delivers (fixed at construction)
    right_input,  \* what the right child delivers
    emitted,      \* the record batches poll_next has returned so far
    last_poll,    \* what the last poll_next returned: "none" before the first
    last_error,   \* the error the last poll_next returned as its item, or "none"
    failed        \* some poll_next so far has returned an error item

vars == <<smj, on, left_input, right_input, emitted, last_poll, last_error, failed>>

\* the join on the first ncols columns of both children, both sorted by the
\* same sort option on each of them
InitWith(join_types, sort_options, null_equals, ncols, cells, cuts, batch_sizes) ==
    \E so \in sort_options, nen \in null_equals, jt \in join_types, bs \in batch_sizes :
      LET sos == [c \in 1..ncols |-> so]
          on0 == [c \in 1..ncols |-> <<c, c>>]
      IN \E lk \in SortedKeySeqs(sos, cells), rk \in SortedKeySeqs(sos, cells), c \in cuts :
              /\ on = on0
              /\ left_input = InputStream(lk, c)
              /\ right_input = InputStream(rk, c)
              /\ smj = execute(InputStream(lk, c), InputStream(rk, c), on0, jt, sos, nen, bs)
              /\ emitted = <<>>
              /\ last_poll = "none"
              /\ last_error = "none"
              /\ failed = FALSE

DefaultSortOptions == [descending |-> FALSE, nulls_first |-> TRUE]

\* the join of tests::join on one key column, the children answering Pending or
\* an error as their schedules say
InitAsync(join_types, lens, batch_sizes, left_schedules, right_schedules) ==
    \E jt \in join_types, bs \in batch_sizes :
      \E lk \in SortedKeySeqsOf(lens, <<DefaultSortOptions>>, {1, 2}),
         rk \in SortedKeySeqsOf(lens, <<DefaultSortOptions>>, {1, 2}),
         li \in left_schedules, ri \in right_schedules :
           /\ on = <<<<1, 1>>>>
           /\ left_input = Interleave(InputStream(lk, 1), li)
           /\ right_input = Interleave(InputStream(rk, 1), ri)
           /\ smj = execute(Interleave(InputStream(lk, 1), li),
                            Interleave(InputStream(rk, 1), ri),
                            <<<<1, 1>>>>, jt, <<DefaultSortOptions>>, FALSE, bs)
           /\ emitted = <<>>
           /\ last_poll = "none"
           /\ last_error = "none"
           /\ failed = FALSE

\* every join type, with the sort options and null_equals_null of tests::join
Init == InitWith(JoinTypes, {DefaultSortOptions}, {FALSE}, 1, Cells, 0..MaxRows, BatchSizes)

\* one join type, with every sort direction, null placement and null equality
InitFor(jt) == InitWith({jt}, SortOptionsSet, BOOLEAN, 1, Cells, 0..MaxRows, BatchSizes)

InitInner == InitFor("Inner")

InitLeft == InitFor("Left")

InitRight == InitFor("Right")

InitFull == InitFor("Full")

InitSemi == InitFor("Semi")

InitAnti == InitFor("Anti")

\* Full join on two key columns whose cells are null or one valid value
InitOrder == InitWith({"Full"}, SortOptionsSet, BOOLEAN, 2, {NULL, 1}, {1}, {2})

\* Full join on two key columns sorted ascending, nulls first
InitRunEquality == InitWith({"Full"}, {DefaultSortOptions}, BOOLEAN, 2, {NULL, 1}, {1}, {2})

\* Full join of children of at most one row on two key columns, each column
\* with its own sort direction and null placement
InitCompare ==
    \E so1 \in SortOptionsSet, so2 \in SortOptionsSet, nen \in BOOLEAN :
      \E lk \in SortedKeySeqsOf({0, 1}, <<so1, so2>>, Cells),
         rk \in SortedKeySeqsOf({0, 1}, <<so1, so2>>, Cells) :
           /\ on = <<<<1, 1>>, <<2, 2>>>>
           /\ left_input = InputStream(lk, 1)
           /\ right_input = InputStream(rk, 1)
           /\ smj = execute(InputStream(lk, 1), InputStream(rk, 1), <<<<1, 1>>, <<2, 2>>>>,
                            "Full", <<so1, so2>>, nen, 1)
           /\ emitted = <<>>
           /\ last_poll = "none"
           /\ last_error = "none"
           /\ failed = FALSE

\* every join type on one key column whose cells are null or one valid value,
\* with both null equalities, the first batch of a child empty or of 1 or 2 rows
InitSteps == InitWith(JoinTypes, {DefaultSortOptions}, BOOLEAN, 1, {NULL, 1}, 0..2, BatchSizes)

\* every join type on one key column of valid cells, the first batch of a child
\* empty or of 1 or 2 rows
InitDrain == InitWith(JoinTypes, {DefaultSortOptions}, {FALSE}, 1, {1, 2}, 0..2, BatchSizes)

\* every join type on one key column, nulls matching nulls, the first batch of
\* a child of one row
InitMatrix == InitWith(JoinTypes, {DefaultSortOptions}, {TRUE}, 1, {NULL, 1}, {1}, BatchSizes)

\* either child may answer Pending before any of its pulls
InitPending ==
    InitAsync(JoinTypes, 0..(MaxRows - 1), BatchSizes,
              Schedules(PendingItem), Schedules(PendingItem))

\* either child may answer an error before any of its pulls
InitErr ==
    InitAsync(JoinTypes, 0..(MaxRows - 1), BatchSizes,
              Schedules(ErrItem("left")), Schedules(ErrItem("right")))

\* Inner join on two key columns whose cells are null or one valid value
InitNulls == InitWith({"Inner"}, SortOptionsSet, BOOLEAN, 2, {NULL, 1}, {1}, {2})

\* what the consumer observes of the answer r of poll_next
Polled(r) ==
    /\ smj' = r.m
    /\ last_poll' = r.ret
    /\ emitted' = IF r.ret = "batch" THEN Append(emitted, r.item) ELSE emitted
    /\ last_error' = IF r.ret = "err" THEN r.item ELSE "none"
    /\ failed' = (failed \/ r.ret = "err")

\* the consumer polls the output stream once
PollNext ==
    /\ last_poll # "panic"
    /\ Polled(poll_next(smj))
    /\ UNCHANGED <<on, left_input, right_input>>

Next == PollNext

Spec == Init /\ [][Next]_vars

SpecInner == InitInner /\ [][Next]_vars

SpecLeft == InitLeft /\ [][Next]_vars

SpecRight == InitRight /\ [][Next]_vars

SpecFull == InitFull /\ [][Next]_vars

SpecSemi == InitSemi /\ [][Next]_vars

SpecAnti == InitAnti /\ [][Next]_vars

SpecNulls == InitNulls /\ [][Next]_vars

\* the output stream has ended: the consumer has no reason to poll again
Ended == last_poll \in {"eos", "err", "panic"}

\* An input that answered Pending wakes the consumer when it has its next answer,
\* and the consumer polls until the output ends: unless the output has ended,
\* polls that do something keep happening.
SpecPending == InitPending /\ [][Next]_vars /\ ([]<>Ended \/ []<><<PollNext>>_vars)

SpecErr == InitErr /\ [][Next]_vars

SpecOrder == InitOrder /\ [][Next]_vars

SpecCompare == InitCompare /\ [][Next]_vars

SpecSteps == InitSteps /\ [][Next]_vars

SpecMatrix == InitMatrix /\ [][Next]_vars

SpecDrain == InitDrain /\ [][Next]_vars

SpecRunEquality == InitRunEquality /\ [][Next]_vars

\* ---------------------------------------------------------------- reference join
LeftRows == AllRows(left_input)

RightRows == AllRows(right_input)

\* the rows every poll_next so far has returned, in emission order
Out == Flatten(emitted)

Done == last_poll = "eos"

Occurrences(s, x) == Cardinality({i \in DOMAIN s : s[i] = x})

\* relational key equality: valid and equal on every key column, or null on
\* both sides of a column when null_equals_null
KeysMatch(lk, rk) ==
    \A c \in DOMAIN on :
        \/ lk[on[c][1]] # NULL /\ rk[on[c][2]] # NULL /\ lk[on[c][1]] = rk[on[c][2]]
        \/ lk[on[c][1]] = NULL /\ rk[on[c][2]] = NULL /\ smj.null_equals_null

RightMatches(l) == {r \in Range(RightRows) : KeysMatch(l.key, r.key)}

LeftMatches(r) == {l \in Range(LeftRows) : KeysMatch(l.key, r.key)}

InnerPairs == UNION {{<<l.id, r.id>> : r \in RightMatches(l)} : l \in Range(LeftRows)}

UnmatchedLeft == {l \in Range(LeftRows) : RightMatches(l) = {}}

UnmatchedRight == {r \in Range(RightRows) : LeftMatches(r) = {}}

\* Out holds exactly the rows of ref, each once
ExactlyOnce(ref) ==
    \A row \in Range(Out) \cup ref : Occurrences(Out, row) = IF row \in ref THEN 1 ELSE 0

SomeEmptyBatch(script) == \E i \in DOMAIN script : script[i].rows = <<>>

\* ---------------------------------------------------------------- claims
\* C1: Inner join: at end-of-stream the emitted rows are, as a multiset, exactly
\* the pairs (left row, right row) whose join keys are equal, each pair once.
C1_InnerJoin ==
    (Done /\ smj.join_type = "Inner") => ExactlyOnce(InnerPairs)

C1_Witness ==
    /\ Done /\ smj.join_type = "Inner"
    /\ Len(Out) >= 4 /\ Len(emitted) >= 2
    /\ SomeEmptyBatch(left_input)
    /\ \E l \in Range(LeftRows) : RightMatches(l) = {}

\* C2: Left join: a left row with k >= 1 key-equal right rows is emitted k times,
\* once with each of them; a left row without one is emitted once with the right
\* side null; nothing else is emitted (so no right-only row).
C2_LeftJoin ==
    (Done /\ smj.join_type = "Left") =>
        ExactlyOnce(InnerPairs \cup {<<l.id, NullRow>> : l \in UnmatchedLeft})

C2_Witness ==
    /\ Done /\ smj.join_type = "Left"
    /\ \E l \in Range(LeftRows) : Cardinality(RightMatches(l)) >= 2
    /\ UnmatchedLeft # {} /\ UnmatchedRight # {}

\* C3: Right join: the right child is streamed and the left child buffered; the
\* output mirrors a Left join (every right row, null left side when unmatched, no
\* left-only row) and every row is laid out left columns then right columns.
C3_RightJoin ==
    smj.join_type = "Right" =>
        /\ last_poll = "none" => (smj.streamed = right_input /\ smj.buffered = left_input)
        /\ Done => ExactlyOnce(InnerPairs \cup {<<NullRow, r.id>> : r \in UnmatchedRight})

C3_Witness ==
    /\ Done /\ smj.join_type = "Right"
    /\ \E r \in Range(RightRows) : Cardinality(LeftMatches(r)) >= 2
    /\ UnmatchedLeft # {} /\ UnmatchedRight # {}
    /\ \E row \in Range(Out) : row[1] # NullRow /\ row[1] # row[2]

\* C4: Full outer join: the output is the inner pairs plus one right-null row per
\* unmatched left row plus one left-null row per unmatched right row, so it has
\* |Inner| + |unmatched_left| + |unmatched_right| rows and no matched right row
\* is emitted again as unmatched.
C4_FullJoin ==
    (Done /\ smj.join_type = "Full") =>
        /\ ExactlyOnce(InnerPairs \cup {<<l.id, NullRow>> : l \in UnmatchedLeft}
                                  \cup {<<NullRow, r.id>> : r \in UnmatchedRight})
        /\ Len(Out) = Cardinality(InnerPairs) + Cardinality(UnmatchedLeft)
                        + Cardinality(UnmatchedRight)

C4_Witness ==
    /\ Done /\ smj.join_type = "Full"
    /\ InnerPairs # {} /\ UnmatchedLeft # {} /\ UnmatchedRight # {}
    /\ \E r \in Range(RightRows) : Cardinality(LeftMatches(r)) >= 2

\* C5: Semi join: a left row with at least one key-equal right row is emitted
\* exactly once, a left row with none never.
C5_SemiJoin ==
    (Done /\ smj.join_type = "Semi") =>
        ExactlyOnce({<<l.id>> : l \in Range(LeftRows) \ UnmatchedLeft})

C5_Witness ==
    /\ Done /\ smj.join_type = "Semi"
    /\ \E l1, l2 \in Range(LeftRows) :
          /\ l1.id # l2.id /\ l1.key = l2.key
          /\ Cardinality(RightMatches(l1)) >= 2
    /\ UnmatchedLeft # {}

\* C6: Anti join: a left row with no key-equal right row is emitted exactly once,
\* also when it comes after the end of the right input; a left row with a
\* key-equal right row never.
C6_AntiJoin ==
    (Done /\ smj.join_type = "Anti") => ExactlyOnce({<<l.id>> : l \in UnmatchedLeft})

C6_Witness ==
    /\ Done /\ smj.join_type = "Anti"
    /\ Len(RightRows) >= 1 /\ Len(LeftRows) >= 2
    /\ LeftRows[Len(LeftRows)] \in UnmatchedLeft
    /\ SortedLE(1, RightRows[Len(RightRows)].key, LeftRows[Len(LeftRows)].key,
                smj.sort_options)
    /\ smj.buffered_state = "Exhausted"
    /\ Range(LeftRows) \ UnmatchedLeft # {}

\* the whole output of the same join run with a batch_size no staging reaches
RECURSIVE run_all(_, _)
run_all(m, acc) ==
    LET r == poll_next(m)
    IN IF r.ret = "batch" THEN run_all(r.m, Append(acc, r.item)) ELSE acc

UnboundedRun ==
    run_all(execute(left_input, right_input, on, smj.join_type, smj.sort_options,
                    smj.null_equals_null, BigBatch), <<>>)

\* C7: at end-of-stream the concatenation of the emitted batches is the row
\* sequence the same join produces with a batch_size larger than its output.
C7_BatchSizeIndependent ==
    Done => Out = Flatten(UnboundedRun)

C7_Witness ==
    /\ Done /\ Len(emitted) >= 3 /\ Len(UnboundedRun) = 1
    /\ smj.batch_size = 2
    /\ \E l \in Range(LeftRows) : Cardinality(RightMatches(l)) = 3

\* C8: no batch poll_next has returned has more than batch_size rows.
C8_BatchAtMostBatchSize ==
    \A i \in DOMAIN emitted : Len(emitted[i]) <= smj.batch_size

C8_Witness ==
    /\ Len(emitted) >= 2 /\ smj.batch_size = 2
    /\ Len(emitted[1]) = 2
    /\ smj.state = "JoinOutput" /\ ~scanning_finished(smj.buffered_data)

\* C9: every emitted batch but the last has exactly batch_size rows, the last
\* has 1..batch_size rows; no batch is empty, and a join without output rows
\* emits no batch.
C9_BatchSizes ==
    /\ \A i \in DOMAIN emitted :
          /\ 1 <= Len(emitted[i]) /\ Len(emitted[i]) <= smj.batch_size
          /\ i < Len(emitted) => Len(emitted[i]) = smj.batch_size
    /\ (Done /\ Out = <<>>) => emitted = <<>>

C9_Witness ==
    /\ Done /\ smj.batch_size = 2 /\ Len(emitted) >= 2
    /\ Len(emitted[Len(emitted)]) = 1

C9_WitnessNoOutput ==
    Done /\ Out = <<>> /\ LeftRows # <<>> /\ RightRows # <<>>

\* C10: Inner join: a left and a right row that are both null in some key
\* column and equal in the other key columns are paired iff null_equals_null;
\* with null_equals_null false no emitted row has a null-keyed side.
LeftNull(l) == \E c \in DOMAIN on : l.key[on[c][1]] = NULL

RightNull(r) == \E c \in DOMAIN on : r.key[on[c][2]] = NULL

\* null on both sides of some key column, the same cell in the others
BothNullElseEqual(l, r) ==
    /\ \E c \in DOMAIN on : l.key[on[c][1]] = NULL /\ r.key[on[c][2]] = NULL
    /\ \A c \in DOMAIN on : l.key[on[c][1]] = r.key[on[c][2]]

NullPairs ==
    UNION {{<<l.id, r.id>> : r \in {x \in Range(RightRows) : BothNullElseEqual(l, x)}} :
            l \in Range(LeftRows)}

C10_NullKeys ==
    (Done /\ smj.join_type = "Inner") =>
        /\ \A pr \in NullPairs : (pr \in Range(Out)) <=> smj.null_equals_null
        /\ ~smj.null_equals_null =>
              \A row \in Range(Out) :
                  ~LeftNull(LeftRows[row[1]]) /\ ~RightNull(RightRows[row[2]])

C10_Witness ==
    /\ Done /\ smj.join_type = "Inner" /\ smj.null_equals_null
    /\ smj.sort_options[1].descending /\ ~smj.sort_options[1].nulls_first
    /\ \E l \in Range(LeftRows), r \in Range(RightRows) :
          /\ l.key = <<1, NULL>> /\ r.key = <<1, NULL>> /\ <<l.id, r.id>> \in Range(Out)
    /\ \E l \in Range(LeftRows), r \in Range(RightRows) :
          /\ l.key = <<NULL, 1>> /\ r.key = <<NULL, NULL>>
    /\ \E row \in Range(Out) : row \notin NullPairs

C10_WitnessNotEqual ==
    /\ Done /\ smj.join_type = "Inner" /\ ~smj.null_equals_null
    /\ NullPairs # {} /\ Out # <<>>
    /\ \E l \in Range(LeftRows) : l.key = <<1, NULL>>

\* C11: with error-free inputs whose Pending answers are finite and a consumer
\* that keeps polling, poll_next eventually returns end-of-stream, the outer
\* machine Exhausted and nothing staged.
\* A poll before the end consumes an input answer or returns a batch or the
\* end, so that the polls of a polling consumer are steps.
C11_Terminates ==
    /\ [](~Ended => (poll_next(smj).m # smj \/ poll_next(smj).ret \in {"batch", "eos"}))
    /\ <>(last_poll = "eos" /\ smj.state = "Exhausted" /\ smj.output_record_batches = <<>>)

C11_Witness ==
    /\ last_poll = "eos" /\ Len(emitted) >= 2
    /\ \E i \in DOMAIN left_input : left_input[i].kind = "pending"
    /\ \E i \in DOMAIN right_input : right_input[i].kind = "pending"

\* the answers an input gave during the step: what left its script
Consumed(before, after) == SubSeq(before, 1, Len(before) - Len(after))

ErrorsIn(items) == {i \in DOMAIN items : items[i].kind = "err"}

\* C12: once poll_next has returned an error item, every later poll_next
\* returns end-of-stream: one error item and nothing after it.
C12_ErrorsTerminal ==
    [][failed => last_poll' = "eos"]_vars

\* C13: after poll_next has returned an error item, no later poll_next polls an
\* input stream or returns a record batch.
C13_NoRetryNoOutput ==
    [][failed => /\ smj'.streamed = smj.streamed
                 /\ smj'.buffered = smj.buffered
                 /\ emitted' = emitted]_vars

\* C14: a poll_next call in which an input answers an error takes no further
\* answer from that input and no error from the other, and returns that error
\* as its item, no batch; and poll_next returns no error but the one an input
\* answered in that call.
C14_UpstreamErrorVerbatim ==
    [][LET s == Consumed(smj.streamed, smj'.streamed)
           b == Consumed(smj.buffered, smj'.buffered)
       IN /\ ErrorsIn(s) # {} =>
               /\ ErrorsIn(s) = {Len(s)} /\ ErrorsIn(b) = {}
               /\ last_poll' = "err" /\ last_error' = s[Len(s)].error
               /\ emitted' = emitted
          /\ ErrorsIn(b) # {} =>
               /\ ErrorsIn(b) = {Len(b)} /\ ErrorsIn(s) = {}
               /\ last_poll' = "err" /\ last_error' = b[Len(b)].error
               /\ emitted' = emitted
          /\ last_poll' = "err" => ErrorsIn(s) \cup ErrorsIn(b) # {}]_vars

\* the buffered input has answered its error while rows were staged, after a
\* batch had been returned
C14_Witness ==
    /\ last_poll = "err" /\ last_error = "right"
    /\ smj.output_record_batches # <<>> /\ emitted # <<>>

\* the sides of an emitted row: the input row ids, NullRow for a null side
LeftSide(row) == row[1]

RightSide(row) == IF Len(row) = 2 THEN row[2] ELSE NullRow

StreamedSide(row) == IF smj.join_type = "Right" THEN RightSide(row) ELSE LeftSide(row)

BufferedSide(row) == IF smj.join_type = "Right" THEN LeftSide(row) ELSE RightSide(row)

\* the join key of an emitted row, from its left side unless that is null
OutKey(row) ==
    IF LeftSide(row) # NullRow
    THEN [c \in DOMAIN on |-> LeftRows[LeftSide(row)].key[on[c][1]]]
    ELSE [c \in DOMAIN on |-> RightRows[RightSide(row)].key[on[c][2]]]

\* C15: over the whole emitted row sequence no row has a key that sorts before
\* the key of an earlier row; rows with a streamed side come in streamed-input
\* order, and the rows of one streamed row in buffered-input order.
C15_OutputOrder ==
    \A i, j \in DOMAIN Out :
        i < j =>
            /\ SortedLE(1, OutKey(Out[i]), OutKey(Out[j]), smj.sort_options)
            /\ (StreamedSide(Out[i]) # NullRow /\ StreamedSide(Out[j]) # NullRow) =>
                  StreamedSide(Out[i]) <= StreamedSide(Out[j])
            /\ (/\ StreamedSide(Out[i]) # NullRow
                /\ StreamedSide(Out[i]) = StreamedSide(Out[j])
                /\ BufferedSide(Out[i]) # NullRow /\ BufferedSide(Out[j]) # NullRow) =>
                  BufferedSide(Out[i]) < BufferedSide(Out[j])

\* the rows of the buffered child and the rows BufferedData holds in its ranges
BufferedRows == IF smj.join_type = "Right" THEN LeftRows ELSE RightRows

BufferedKey(row) == [c \in DOMAIN smj.on_buffered |-> row.key[smj.on_buffered[c]]]

Held ==
    Flatten([i \in DOMAIN smj.buffered_data.batches |->
                SubSeq(smj.buffered_data.batches[i].batch,
                       smj.buffered_data.batches[i].range.start + 1,
                       smj.buffered_data.batches[i].range.end)])

\* two keys with the same cells, null cells alike
SameCells(k1, k2) == k1 = k2

\* rows i..j of the buffered input are consecutive rows of one key run
OneRun(rows, i, j, eq(_, _)) ==
    \A k \in i..(j - 1) : eq(BufferedKey(rows[k]), BufferedKey(rows[k + 1]))

LongestRun(eq(_, _)) ==
    LET rows == BufferedRows
    IN CHOOSE n \in 0..Len(rows) :
        /\ n = 0 => rows = <<>>
        /\ n > 0 => \E i \in 1..(Len(rows) - n + 1) : OneRun(rows, i, i + n - 1, eq)
        /\ \A i, j \in DOMAIN rows : (i <= j /\ OneRun(rows, i, j, eq)) => j - i + 1 <= n

\* the held rows are consecutive rows of the buffered input, of one run, and
\* no more than the longest run
HeldWithinOneRun(eq(_, _)) ==
    LET held == Held
    IN /\ Len(held) <= LongestRun(eq)
       /\ \A k \in 1..(Len(held) - 1) : held[k + 1].id = held[k].id + 1
       /\ OneRun(held, 1, Len(held), eq)

PendingFreeRun ==
    run_all(execute(Delivered(left_input), Delivered(right_input), on, smj.join_type,
                    smj.sort_options, smj.null_equals_null, smj.batch_size), <<>>)

\* C17: whatever the schedule of Pending answers, the batches emitted so far are
\* the first batches of the join of the same inputs without Pending answers,
\* and at end-of-stream they are all of them.
C17_PendingIndependent ==
    LET run == PendingFreeRun
    IN /\ Len(emitted) <= Len(run)
       /\ emitted = SubSeq(run, 1, Len(emitted))
       /\ Done => emitted = run

\* a Pending of the buffered input has bubbled out in the middle of a run, with
\* rows staged and a batch still to come
C17_Witness ==
    /\ last_poll = "pending" /\ smj.buffered_state = "PollingRest"
    /\ smj.output_record_batches # <<>>
    /\ Len(PendingFreeRun) > Len(emitted)

\* the last answer an input gave during the step was Pending
EndedPending(before, after) ==
    /\ Len(after) < Len(before)
    /\ before[Len(before) - Len(after)].kind = "pending"

\* the streamed cursor has taken every row delivered to it
StreamedDrained(m) ==
    m.streamed_state = "Polling" /\ ~(m.streamed_idx + 1 < Len(m.streamed_batch))

\* the buffered accumulator has taken every row delivered to it
BufferedDrained(m) ==
    \/ m.buffered_state = "PollingFirst" /\ m.buffered_data.batches = <<>>
    \/ /\ m.buffered_state = "PollingRest"
       /\ tail_batch(m.buffered_data).range.end = Len(tail_batch(m.buffered_data).batch)

RefColumn(l, r, so, nen) ==
    IF l # NULL /\ r # NULL
    THEN IF l = r THEN "Equal"
         ELSE IF (l < r) # so.descending THEN "Less" ELSE "Greater"
    ELSE IF l = NULL /\ r = NULL THEN (IF nen THEN "Equal" ELSE "Less")
    ELSE IF (l = NULL) = so.nulls_first THEN "Less" ELSE "Greater"

\* the result of the first key column that is not Equal, Equal if all tie
RefCompare(lk, rk, sos, nen) ==
    LET decided == {c \in DOMAIN sos : RefColumn(lk[c], rk[c], sos[c], nen) # "Equal"}
    IN IF decided = {} THEN "Equal"
       ELSE LET c == CHOOSE x \in decided : \A y \in decided : x <= y
            IN RefColumn(lk[c], rk[c], sos[c], nen)

\* C19: compare_join_arrays on a left and a right row is the result of the first
\* key column that is not Equal (value order reversed when descending, a lone
\* null placed by nulls_first alone, two nulls Equal iff null_equals_null, else
\* Less); and the ordering the merge last recorded for the current streamed row
\* and buffered run is that comparison.
C19_KeyComparator ==
    /\ \A l \in Range(LeftRows), r \in Range(RightRows) :
          compare_join_arrays(join_arrays(<<l>>, <<1, 2>>), 0, join_arrays(<<r>>, <<1, 2>>), 0,
                              smj.sort_options, smj.null_equals_null)
            = RefCompare(l.key, r.key, smj.sort_options, smj.null_equals_null)
    /\ (/\ smj.state = "JoinOutput" /\ smj.streamed_state = "Ready"
        /\ has_buffered_rows(smj.buffered_data)) =>
          smj.current_ordering =
              RefCompare(smj.streamed_batch[smj.streamed_idx + 1].key,
                         head_batch(smj.buffered_data).batch[
                             head_batch(smj.buffered_data).range.start + 1].key,
                         smj.sort_options, smj.null_equals_null)

\* descending columns, the first ties on two nulls, the second has a lone null
\* on the right; the merge has compared the two rows and returned a batch
C19_Witness ==
    /\ smj.state = "JoinOutput" /\ smj.streamed_state = "Ready"
    /\ has_buffered_rows(smj.buffered_data) /\ emitted # <<>>
    /\ smj.null_equals_null
    /\ smj.sort_options[1].descending /\ smj.sort_options[2].descending
    /\ smj.sort_options[2].nulls_first
    /\ LeftRows[1].key = <<NULL, 2>> /\ RightRows[1].key = <<NULL, NULL>>
    /\ smj.current_ordering = "Greater"

\* is_join_arrays_equal on rows i and j of the buffered input
IsEqualRows(i, j) ==
    is_join_arrays_equal(join_arrays(BufferedRows, smj.on_buffered), i - 1,
                         join_arrays(BufferedRows, smj.on_buffered), j - 1)

\* on every key column both values are valid and equal
ValidAndEqual(k1, k2) ==
    \A c \in DOMAIN k1 : k1[c] # NULL /\ k2[c] # NULL /\ k1[c] = k2[c]

\* on every key column both values are valid and equal, or both are null
EqualOrBothNull(k1, k2) ==
    \A c \in DOMAIN k1 :
        \/ k1[c] # NULL /\ k2[c] # NULL /\ k1[c] = k2[c]
        \/ k1[c] = NULL /\ k2[c] = NULL

RECURSIVE Trail(_)
Trail(m) ==
    LET r == outer_step(m)
    IN IF r.ret = "continue" THEN <<m>> \o Trail(r.m) ELSE <<m, r.m>>

\* the rows inside the ranges of the BufferedData of m
HeldOf(m) ==
    Flatten([i \in DOMAIN m.buffered_data.batches |->
                SubSeq(m.buffered_data.batches[i].batch,
                       m.buffered_data.batches[i].range.start + 1,
                       m.buffered_data.batches[i].range.end)])

\* the key of a buffered row has a null cell
HasNull(row) == \E c \in DOMAIN BufferedKey(row) : BufferedKey(row)[c] = NULL

\* held is a maximal stretch of consecutive rows of the buffered input that
\* have the key cells of its first row, null cells alike
MaximalRun(held) ==
    /\ held # <<>>
    /\ \A k \in DOMAIN held :
          /\ held[k].id = held[1].id + k - 1
          /\ BufferedRows[held[k].id] = held[k]
          /\ BufferedKey(held[k]) = BufferedKey(held[1])
    /\ held[1].id > 1 => BufferedKey(BufferedRows[held[1].id - 1]) # BufferedKey(held[1])
    /\ held[Len(held)].id < Len(BufferedRows) =>
          BufferedKey(BufferedRows[held[Len(held)].id + 1]) # BufferedKey(held[1])

NextId(m) == IF HeldOf(m) = <<>> THEN 1 ELSE HeldOf(m)[Len(HeldOf(m))].id + 1

StreamedRows == IF smj.join_type = "Right" THEN RightRows ELSE LeftRows

StreamedInput == IF smj.join_type = "Right" THEN right_input ELSE left_input

\* the id of the current streamed row of m, 0 before the first batch
CurId(m) == IF m.streamed_batch = <<>> THEN 0 ELSE m.streamed_batch[m.streamed_idx + 1].id

\* the streams the loop of poll_streamed_row passes through from m
RECURSIVE StreamedTrail(_)
StreamedTrail(m) ==
    LET r == streamed_step(m)
    IN IF r.ret = "continue" THEN <<m>> \o StreamedTrail(r.m) ELSE <<m, r.m>>

\* the cursor of m stands on row id of the streamed input, in the batch of
\* the input that holds this row
OnRow(m, id) ==
    /\ m.streamed_idx < Len(m.streamed_batch)
    /\ m.streamed_batch[m.streamed_idx + 1] = StreamedRows[id]
    /\ \E i \in DOMAIN StreamedInput : StreamedInput[i].rows = m.streamed_batch

\* C23: from one iteration of poll_next to the next the current streamed row
\* stays or moves to the next row of the input, the cursor being Ready on it;
\* it does not move while Ready, and the cursor is Exhausted only after the
\* last row: every row is current exactly once, in input order.  Inside
\* poll_streamed_row an empty batch changes nothing but the input, and the end
\* of the input moves the cursor to Exhausted.
C23_StreamedCursor ==
    LET trail == Trail(smj)
    IN \A i \in 1..(Len(trail) - 1) :
          LET a == trail[i]
              b == trail[i + 1]
          IN /\ CurId(b) \in {CurId(a), CurId(a) + 1}
             /\ CurId(b) = CurId(a) + 1 =>
                   /\ a.streamed_state \in {"Init", "Polling"}
                   /\ b.streamed_state = "Ready" /\ OnRow(b, CurId(b))
             /\ (b.streamed_state = "Ready" /\ a.streamed_state # "Ready") =>
                   CurId(b) = CurId(a) + 1
             /\ a.streamed_state \in {"Ready", "Exhausted"} =>
                   /\ b.streamed_batch = a.streamed_batch
                   /\ b.streamed_idx = a.streamed_idx
             /\ a.streamed_state = "Exhausted" => b.streamed_state = "Exhausted"
             /\ b.streamed_state = "Exhausted" => CurId(b) = Len(StreamedRows)
             /\ (a.state = "Polling" /\ a.streamed_state \notin {"Ready", "Exhausted"}) =>
                   \A k \in 1..(Len(StreamedTrail(a)) - 1) :
                       LET x == StreamedTrail(a)[k]
                           y == StreamedTrail(a)[k + 1]
                       IN /\ (/\ x.streamed_state = "Polling" /\ x.streamed # <<>>
                              /\ Head(x.streamed).kind = "batch"
                              /\ Head(x.streamed).rows = <<>>) =>
                                y = [x EXCEPT !.streamed = Tail(@)]
                          /\ (x.streamed_state = "Polling" /\ x.streamed = <<>>) =>
                                y.streamed_state = "Exhausted"

\* the first streamed batch was empty and the cursor is Ready on the second row
\* of the second
C23_Witness ==
    /\ StreamedInput[1].rows = <<>> /\ last_poll = "batch"
    /\ smj.streamed_state = "Ready" /\ smj.streamed_idx = 1 /\ CurId(smj) = 2

\* Init lets the streamed cursor advance and leaves the buffered side alone
AdvancesStreamed(a, b) ==
    /\ a.current_ordering \in {"Less", "Equal"} /\ a.streamed_state # "Exhausted"
    /\ ~b.streamed_joined /\ b.streamed_state = "Init"
    /\ b.buffered_state = a.buffered_state /\ b.buffered_joined = a.buffered_joined

\* Init lets the buffered accumulator advance and leaves the streamed side alone
AdvancesBuffered(a, b) ==
    /\ a.current_ordering = "Greater" /\ a.buffered_state # "Exhausted"
    /\ ~b.buffered_joined /\ b.buffered_state = "Init"
    /\ b.streamed_state = a.streamed_state /\ b.streamed_idx = a.streamed_idx
    /\ b.streamed_joined = a.streamed_joined

\* C24: an iteration of poll_next in state Init goes to Exhausted if both
\* sides are Exhausted; otherwise it goes to Polling and does exactly one of:
\* reset streamed_joined and set the streamed cursor to Init (ordering Less or
\* Equal, streamed not Exhausted), buffered side unchanged; or reset
\* buffered_joined and set the accumulator to Init (ordering Greater, buffered
\* not Exhausted), streamed side unchanged.
C24_OuterInit ==
    LET trail == Trail(smj)
    IN \A i \in 1..(Len(trail) - 1) :
          LET a == trail[i]
              b == trail[i + 1]
          IN a.state = "Init" =>
                IF a.streamed_state = "Exhausted" /\ a.buffered_state = "Exhausted"
                THEN b = [a EXCEPT !.state = "Exhausted"]
                ELSE /\ b.state = "Polling"
                     /\ AdvancesStreamed(a, b) # AdvancesBuffered(a, b)
                     /\ b.streamed_batch = a.streamed_batch
                     /\ b.buffered_data = a.buffered_data

\* an Init step on ordering Greater has just set the accumulator to Init while
\* the streamed cursor stays Ready on its row, a pairing already made
C24_Witness ==
    \E i \in 1..(Len(Trail(smj)) - 1) :
        /\ Trail(smj)[i].state = "Init" /\ Trail(smj)[i].current_ordering = "Greater"
        /\ Trail(smj)[i].buffered_joined /\ Trail(smj)[i].streamed_state = "Ready"
        /\ Trail(smj)[i + 1].buffered_state = "Init" /\ ~Trail(smj)[i + 1].buffered_joined
        /\ Trail(smj)[i + 1].streamed_state = "Ready"
        /\ emitted # <<>>

\* the rows inside the ranges of the first n batches
RECURSIVE RowsBefore(_, _)
RowsBefore(batches, n) ==
    IF n = 0 THEN 0 ELSE range_len(batches[n].range) + RowsBefore(batches, n - 1)

\* how many rows of the held run the scan cursors of m have passed
ScanPos(m) ==
    IF scanning_finished(m.buffered_data)
    THEN Len(HeldOf(m))
    ELSE RowsBefore(m.buffered_data.batches, m.buffered_data.scanning_batch_idx)
            + m.buffered_data.scanning_offset

\* the id of the buffered row an output index points to
IndexedId(m, index) == m.buffered_data.batches[index.b + 1].batch[index.r + 1].id

\* C25: join_partial on a run pairs the rows from the first one not yet
\* paired, in order, as many as the room left in the staging area allows, with
\* the streamed row it started with; a pairing starts at the first row of the
\* run, an interrupted one keeps streamed row, run and place of the scan, and
\* JoinOutput is left only when the scan is finished, so every row of the run
\* is emitted once per pairing; streamed_joined and buffered_joined turn true
\* only in a step that finishes the scan.
C25_ResumableScan ==
    LET trail == Trail(smj)
    IN \A i \in 1..(Len(trail) - 1) :
          LET a == trail[i]
              b == trail[i + 1]
              j == join_partial(a)
          IN /\ (a.state = "Polling" /\ b.state = "JoinOutput") => ScanPos(b) = 0 \/ HeldOf(b) = <<>>
             /\ a.state = "JoinOutput" =>
                   /\ join_buffered(a) =>
                         /\ Len(j.output_indices) =
                               Min(Len(HeldOf(a)) - ScanPos(a), a.batch_size - a.output_size)
                         /\ \A k \in DOMAIN j.output_indices :
                               /\ IndexedId(a, j.output_indices[k]) = HeldOf(a)[ScanPos(a) + k].id
                               /\ j.output_indices[k].s_some = join_streamed(a)
                               /\ join_streamed(a) => j.output_indices[k].s = a.streamed_idx
                         /\ ScanPos(j.m) = ScanPos(a) + Len(j.output_indices)
                   /\ (j.m.streamed_joined /\ ~a.streamed_joined) =>
                         scanning_finished(j.m.buffered_data)
                   /\ (j.m.buffered_joined /\ ~a.buffered_joined) =>
                         scanning_finished(j.m.buffered_data)
                   /\ b.state = "JoinOutput" =>
                         /\ HeldOf(b) = HeldOf(a) /\ CurId(b) = CurId(a)
                         /\ b.current_ordering = a.current_ordering
                         /\ b.buffered_data = j.m.buffered_data
                   /\ b.state # "JoinOutput" =>
                         b.state = "Init" /\ scanning_finished(j.m.buffered_data)

\* a poll has returned a batch in the middle of pairing a streamed row with a
\* run of three rows in two batches: two rows are paired, one is to come
C25_Witness ==
    /\ last_poll = "batch" /\ smj.state = "JoinOutput" /\ smj.current_ordering = "Equal"
    /\ Len(Held) = 3 /\ Len(smj.buffered_data.batches) = 2
    /\ ScanPos(smj) = 2 /\ smj.buffered_data.scanning_batch_idx = 1
    /\ ~smj.buffered_joined

\* C26: an iteration of poll_next in JoinOutput whose join_partial leaves
\* batch_size rows staged returns one batch, of all the staged rows, empties the
\* staging area and stays in JoinOutput, also when the scan is finished (the
\* next join_partial then produces no index); otherwise it returns nothing
\* and goes to Init, with the scan cursors at (0, 0), if and only if the scan
\* is finished.
C26_JoinOutputStep ==
    LET trail == Trail(smj)
    IN /\ \A i \in DOMAIN trail :
             LET a == trail[i]
                 j == join_partial(a)
                 r == outer_step(a)
             IN a.state = "JoinOutput" =>
                   IF j.m.output_size >= a.batch_size
                   THEN /\ r.ret = "batch" /\ Len(r.item) = j.m.output_size
                        /\ r.m.state = "JoinOutput"
                        /\ r.m.output_size = 0 /\ r.m.output_record_batches = <<>>
                        /\ r.m.buffered_data = j.m.buffered_data
                        /\ scanning_finished(r.m.buffered_data) =>
                              join_partial(r.m).output_indices = <<>>
                   ELSE /\ r.ret = "continue"
                        /\ r.m.state = "Init" <=> scanning_finished(j.m.buffered_data)
                        /\ r.m.state # "Init" =>
                              r.m.state = "JoinOutput" /\ r.m.buffered_data = j.m.buffered_data
                        /\ r.m.state = "Init" =>
                              /\ r.m.buffered_data.scanning_batch_idx = 0
                              /\ r.m.buffered_data.scanning_offset = 0
       /\ (last_poll = "batch" /\ smj.state = "JoinOutput") =>
             /\ smj.output_size = 0
             /\ Len(emitted[Len(emitted)]) = smj.batch_size

\* a poll has returned a batch from JoinOutput in the step that finished the
\* scan of a run of two rows
C26_Witness ==
    /\ last_poll = "batch" /\ smj.state = "JoinOutput"
    /\ scanning_finished(smj.buffered_data) /\ Len(Held) = 2
    /\ smj.buffered_joined /\ smj.streamed_joined /\ smj.batch_size = 2

\* the decision matrix: what a pairing emits, by ordering and join type; "S" is
\* the streamed row with nulls, "B" nulls with the rows of the run, "SB" the
\* streamed row with the rows of the run
MatrixRow(ordering) ==
    CASE ordering = "Less" ->
            [Inner |-> "-", Left |-> "S", Right |-> "S", Full |-> "S", Semi |-> "-", Anti |-> "S"]
      [] ordering = "Equal" ->
            [Inner |-> "SB", Left |-> "SB", Right |-> "SB", Full |-> "SB", Semi |-> "S", Anti |-> "-"]
      [] OTHER ->
            [Inner |-> "-", Left |-> "-", Right |-> "-", Full |-> "B", Semi |-> "-", Anti |-> "-"]

\* the matrix entry with its condition on the joined flags applied
Prescribed(m) ==
    LET e == MatrixRow(m.current_ordering)[m.join_type]
    IN CASE e = "S" -> IF m.streamed_joined THEN "-" ELSE "S"
         [] e = "B" -> IF m.buffered_joined THEN "-" ELSE "B"
         [] OTHER -> e

IndexKind(index) ==
    CASE index.s_some /\ index.b_some -> "SB"
      [] index.s_some -> "S"
      [] index.b_some -> "B"
      [] OTHER -> "-"

\* what join_partial produces on a is what the matrix prescribes for a
FollowsMatrix(a) ==
    LET out == join_partial(a).output_indices
    IN /\ \A k \in DOMAIN out : IndexKind(out[k]) = Prescribed(a)
       /\ Prescribed(a) = "-" => out = <<>>
       /\ Prescribed(a) = "S" => Len(out) = 1
       /\ (Prescribed(a) \in {"SB", "B"} /\ ~scanning_finished(a.buffered_data)) => out # <<>>

\* C27: in every iteration of poll_next in JoinOutput join_partial produces
\* what the decision matrix prescribes for current_ordering, join type,
\* streamed_joined and buffered_joined: nothing, or exactly one (streamed, null)
\* index, or indices over the run that are all (streamed, buffered), or all
\* (null, buffered); and so it does on the same cursors for every other
\* combination of ordering, join type and flags.
C27_DecisionMatrix ==
    LET trail == Trail(smj)
    IN \A i \in DOMAIN trail :
          trail[i].state = "JoinOutput" =>
             /\ FollowsMatrix(trail[i])
             /\ \A o \in {"Less", "Equal", "Greater"}, jt \in JoinTypes, sj \in BOOLEAN, bj \in BOOLEAN :
                   FollowsMatrix([trail[i] EXCEPT !.current_ordering = o, !.join_type = jt,
                                                  !.streamed_joined = sj, !.buffered_joined = bj])

\* the entries of the matrix an execution passes: here a Full join pads a run
\* of two rows with nulls on ordering Greater
C27_Witness ==
    \E i \in DOMAIN Trail(smj) :
        /\ Trail(smj)[i].state = "JoinOutput" /\ Trail(smj)[i].join_type = "Full"
        /\ Trail(smj)[i].current_ordering = "Greater" /\ ~Trail(smj)[i].buffered_joined
        /\ Trail(smj)[i].streamed_state = "Ready"
        /\ Len(join_partial(Trail(smj)[i]).output_indices) = 2

\* C28 as stated: whenever join_partial emits an index with a null side, it
\* emits that index alone, leaves the scan finished and streamed_joined true
C28_PaddingSingle ==
    \A i \in DOMAIN Trail(smj) :
        LET a == Trail(smj)[i]
            j == join_partial(a)
        IN (/\ a.state = "JoinOutput"
            /\ \E k \in DOMAIN j.output_indices : IndexKind(j.output_indices[k]) \in {"S", "B"}) =>
              /\ Len(j.output_indices) = 1
              /\ scanning_finished(j.m.buffered_data)
              /\ j.m.streamed_joined

\* C28: when join_partial pads the streamed row with nulls it emits that one
\* index, leaves the scan finished and streamed_joined true, buffered_joined as
\* it was; when it pads the run with nulls (Full, Greater) it emits one
\* (null, buffered) index per row of the run as far as the staging area has
\* room, and in the step that finishes the scan sets buffered_joined true and
\* streamed_joined false, the flags staying as they were before that.
C28_OuterPadding ==
    LET trail == Trail(smj)
    IN \A i \in DOMAIN trail :
          LET a == trail[i]
              j == join_partial(a)
              kinds == {IndexKind(j.output_indices[k]) : k \in DOMAIN j.output_indices}
          IN a.state = "JoinOutput" =>
                /\ "S" \in kinds =>
                      /\ Len(j.output_indices) = 1
                      /\ scanning_finished(j.m.buffered_data)
                      /\ j.m.streamed_joined
                      /\ j.m.buffered_joined = a.buffered_joined
                /\ "B" \in kinds =>
                      /\ kinds = {"B"}
                      /\ Len(j.output_indices) =
                            Min(Len(HeldOf(a)) - ScanPos(a), a.batch_size - a.output_size)
                      /\ IF scanning_finished(j.m.buffered_data)
                         THEN j.m.buffered_joined /\ ~j.m.streamed_joined
                         ELSE /\ j.m.buffered_joined = a.buffered_joined
                              /\ j.m.streamed_joined = a.streamed_joined

\* a Full join has returned a batch in the middle of padding a run of two
\* rows with nulls: one row is padded, buffered_joined is still false
C28_Witness ==
    /\ last_poll = "batch" /\ smj.state = "JoinOutput" /\ smj.join_type = "Full"
    /\ smj.current_ordering = "Greater" /\ smj.streamed_state = "Ready"
    /\ Len(Held) = 2 /\ ScanPos(smj) = 1 /\ ~smj.buffered_joined

\* C29 as stated: in every state where the streamed cursor is Init or Ready,
\* the state after construction included, streamed_idx < num_rows
C29_IdxBelowRows ==
    smj.streamed_state \in {"Init", "Ready"} => smj.streamed_idx < Len(smj.streamed_batch)

\* C29: at every iteration of poll_next, once a non-empty streamed batch has
\* been received streamed_idx < streamed_batch.num_rows(), in every state of the
\* cursor; until then, from construction on, the batch is the empty placeholder,
\* streamed_idx is 0 and the cursor is not Ready.
C29_IdxBelowRowsOnceFilled ==
    LET trail == Trail(smj)
    IN \A i \in DOMAIN trail :
          IF trail[i].streamed_batch # <<>>
          THEN trail[i].streamed_idx < Len(trail[i].streamed_batch)
          ELSE trail[i].streamed_idx = 0 /\ trail[i].streamed_state # "Ready"

\* the cursor is Ready on the last row of a batch of three rows
C29_Witness ==
    /\ last_poll = "batch" /\ smj.streamed_state = "Ready"
    /\ smj.streamed_idx = 2 /\ Len(smj.streamed_batch) = 3

\* C30: at every iteration of poll_next in JoinOutput with the buffered
\* accumulator not Exhausted, the accumulator is Ready, BufferedData.batches is
\* non-empty and the range of the head batch is non-empty.
C30_BufferedNonEmpty ==
    LET trail == Trail(smj)
    IN \A i \in DOMAIN trail :
          (trail[i].state = "JoinOutput" /\ trail[i].buffered_state # "Exhausted") =>
              /\ trail[i].buffered_state = "Ready"
              /\ trail[i].buffered_data.batches # <<>>
              /\ range_len(head_batch(trail[i].buffered_data).range) > 0

\* a poll has returned in JoinOutput with a run that ended on the first row of
\* the next batch: two batches are queued, the range of the tail is empty
C30_Witness ==
    /\ last_poll = "batch" /\ smj.state = "JoinOutput" /\ smj.buffered_state = "Ready"
    /\ Len(smj.buffered_data.batches) = 2
    /\ range_len(tail_batch(smj.buffered_data).range) = 0

\* ---------------------------------------------------------------- the end of the merge
\* C31: an iteration of poll_next in Exhausted returns: with rows staged it
\* returns one batch of exactly the staged rows and only empties the staging
\* area; with nothing staged it returns end-of-stream and changes nothing, the
\* inputs included.  Between two polls nothing is staged in Exhausted, so at
\* most one batch follows the step into Exhausted and every poll_next after it
\* returns end-of-stream.
C31_OuterExhausted ==
    LET trail == Trail(smj)
    IN /\ \A i \in DOMAIN trail :
             trail[i].state = "Exhausted" =>
                 LET x == trail[i]
                     r == outer_step(x)
                 IN IF x.output_record_batches # <<>>
                    THEN /\ r.ret = "batch"
                         /\ r.item = Flatten(x.output_record_batches)
                         /\ Len(r.item) = x.output_size
                         /\ r.m = [x EXCEPT !.output_size = 0,
                                            !.output_record_batches = <<>>]
                    ELSE r.ret = "eos" /\ r.m = x
       /\ smj.state = "Exhausted" =>
             /\ smj.output_record_batches = <<>>
             /\ poll_next(smj) = Ret(smj, "eos", <<>>)

\* the step into Exhausted was followed by a batch of the rows still staged,
\* fewer than batch_size, and then by end-of-stream
C31_Witness ==
    /\ smj.state = "Exhausted" /\ last_poll = "eos" /\ Len(emitted) = 2
    /\ Len(emitted[2]) < smj.batch_size

\* C32: from one iteration of poll_next to the next (and so in every later
\* state) a streamed cursor that is Exhausted stays Exhausted, and a buffered
\* accumulator that is Exhausted stays Exhausted with an empty queue: no
\* further run is formed.
C32_SubMachinesTerminal ==
    LET trail == Trail(smj)
    IN \A i \in 1..(Len(trail) - 1) :
          /\ trail[i].streamed_state = "Exhausted" =>
                 trail[i + 1].streamed_state = "Exhausted"
          /\ trail[i].buffered_state = "Exhausted" =>
                 /\ trail[i].buffered_data.batches = <<>>
                 /\ trail[i + 1].buffered_state = "Exhausted"
                 /\ trail[i + 1].buffered_data.batches = <<>>

\* a second batch has been returned with the buffered accumulator Exhausted
\* and the streamed cursor still on a row
C32_Witness ==
    /\ last_poll = "batch" /\ Len(emitted) = 2 /\ smj.state = "JoinOutput"
    /\ smj.buffered_state = "Exhausted" /\ smj.streamed_state = "Ready"

\* C33: while streamed_batch is still the empty placeholder of try_new, an
\* iteration of poll_next in JoinOutput finds the streamed cursor Exhausted and
\* the ordering Greater (compare_streamed_buffered returned before it read the
\* streamed key arrays), and no index join_partial produces has a streamed row.
C33_PlaceholderUnused ==
    LET trail == Trail(smj)
    IN \A i \in DOMAIN trail :
          (trail[i].streamed_batch = <<>> /\ trail[i].state = "JoinOutput") =>
              /\ trail[i].streamed_state = "Exhausted"
              /\ trail[i].current_ordering = "Greater"
              /\ \A k \in DOMAIN join_partial(trail[i]).output_indices :
                     ~join_partial(trail[i]).output_indices[k].s_some

\* the streamed input delivered only empty batches and a Full join has
\* returned a batch of buffered rows with the placeholder still in place
C33_Witness ==
    /\ last_poll = "batch" /\ smj.state = "JoinOutput"
    /\ smj.streamed_batch = <<>> /\ smj.streamed = <<>>
    /\ smj.streamed_state = "Exhausted"

\* the streams the loop of poll_buffered_batches passes through from m
RECURSIVE BufferedTrail(_)
BufferedTrail(m) ==
    LET r == buffered_step(m)
    IN IF r.ret = "continue" THEN <<m>> \o BufferedTrail(r.m) ELSE <<m, r.m>>

\* the buffered input has answered end-of-stream: the accumulator is Exhausted
\* (PollingFirst got it), or PollingRest got it and made the accumulator Ready
\* with the range of the tail batch at the end of the batch (a run closed by a
\* row of another key ends before it); Init after such a Ready holds the same
\* queue
BufferedEnded(m) ==
    \/ m.buffered_state = "Exhausted"
    \/ /\ m.buffered_state \in {"Ready", "Init"}
       /\ m.buffered_data.batches # <<>>
       /\ tail_batch(m.buffered_data).range.end = Len(tail_batch(m.buffered_data).batch)

\* the iteration of poll_next on m calls poll_next_unpin of the streamed input
PollsStreamed(m) ==
    /\ m.state = "Polling" /\ m.streamed_state \notin {"Exhausted", "Ready"}
    /\ LET t == StreamedTrail(m)
       IN \E j \in 1..(Len(t) - 1) : t[j].streamed_state = "Polling"

\* the iteration of poll_next on m calls poll_next_unpin of the buffered input
PollsBuffered(m) ==
    /\ m.state = "Polling"
    /\ LET rs == polling_streamed(m)
       IN /\ rs.ret \notin {"pending", "err", "panic"}
          /\ rs.m.buffered_state \notin {"Exhausted", "Ready"}
          /\ LET t == BufferedTrail(rs.m)
             IN \E j \in 1..(Len(t) - 1) :
                   \/ t[j].buffered_state = "PollingFirst"
                   \/ /\ t[j].buffered_state = "PollingRest"
                      /\ t[j].buffered_data.batches # <<>>
                      /\ tail_batch(t[j].buffered_data).range.end
                             = Len(tail_batch(t[j].buffered_data).batch)

\* C34: no iteration of poll_next polls an input that has answered
\* end-of-stream.
C34_NoPollAfterEnd ==
    LET trail == Trail(smj)
    IN \A i \in DOMAIN trail :
          /\ trail[i].streamed_state = "Exhausted" => ~PollsStreamed(trail[i])
          /\ BufferedEnded(trail[i]) => ~PollsBuffered(trail[i])

\* ---------------------------------------------------------------- staging
\* the rows staged in output_record_batches
Staged(m) == Flatten(m.output_record_batches)

\* the kinds of index the output_partial_* functions called for a join type
\* materialize
Materialized(join_type) ==
    CASE join_type = "Inner" -> {"SB"}
      [] join_type \in {"Left", "Right"} -> {"SB", "S"}
      [] join_type = "Full" -> {"SB", "S", "B"}
      [] OTHER -> {"S"}

\* C35: at every iteration of poll_next, output_size is the number of rows
\* staged in output_record_batches and at most batch_size (both are zero
\* together, after a flush too), no staged record batch is empty, and in
\* JoinOutput every index join_partial pushes is of a kind the join type's
\* output_partial_* functions materialize, which stage one row for each index.
C35_StagingAccounting ==
    LET trail == Trail(smj)
    IN \A i \in DOMAIN trail :
          LET x == trail[i]
          IN /\ x.output_size = Len(Staged(x))
             /\ x.output_size <= x.batch_size
             /\ \A b \in DOMAIN x.output_record_batches : x.output_record_batches[b] # <<>>
             /\ x.state = "JoinOutput" =>
                   LET j == join_partial(x)
                   IN /\ \A k \in DOMAIN j.output_indices :
                            IndexKind(j.output_indices[k]) \in Materialized(x.join_type)
                      /\ j.m.output_size = x.output_size + Len(j.output_indices)
                      /\ Len(Staged(output_partial(j.m, j.output_indices)))
                            = Len(Staged(x)) + Len(j.output_indices)

\* a batch of batch_size = 2 rows has been flushed from JoinOutput and the
\* staging area is empty again
C35_Witness ==
    /\ last_poll = "batch" /\ smj.state = "JoinOutput" /\ smj.batch_size = 2
    /\ Len(emitted[Len(emitted)]) = 2
    /\ smj.output_size = 0 /\ smj.output_record_batches = <<>>

\* C36: no iteration of poll_next panics, and an iteration in JoinOutput that
\* ends with output_size >= batch_size, and so calls
\* output_record_batch_and_reset, has a staged record batch (the call from
\* Exhausted is made under the test that one is staged).
C36_FlushNonEmpty ==
    LET trail == Trail(smj)
    IN \A i \in DOMAIN trail :
          LET x == trail[i]
          IN /\ ~x.panicked
             /\ outer_step(x).ret # "panic"
             /\ x.state = "JoinOutput" =>
                   LET j == join_partial(x)
                       m1 == IF j.output_indices # <<>>
                             THEN output_partial(j.m, j.output_indices) ELSE j.m
                   IN m1.output_size >= m1.batch_size => m1.output_record_batches # <<>>

\* three batches have been flushed from JoinOutput at batch_size 1
C36_Witness ==
    /\ last_poll = "batch" /\ smj.state = "JoinOutput" /\ smj.batch_size = 1
    /\ Len(emitted) = 3 /\ ~smj.panicked

\* ---------------------------------------------------------------- progress
\* C37: at an iteration of poll_next in Init with not both sides Exhausted, the
\* side current_ordering selects is not Exhausted; and when the Polling
\* iteration that follows has polled both sides, on Less or Equal the streamed
\* cursor stands on the next row of the streamed input (or is Exhausted, after
\* the last row) with the held run unchanged (but for the first round, which
\* also forms the first run), on Greater the accumulator holds
\* the run that starts after the previous one (or is Exhausted, after the last
\* buffered row) with the streamed cursor unchanged: the pairing is a new one.
C37_ProgressAtInit ==
    LET trail == Trail(smj)
    IN \A i \in DOMAIN trail :
          LET x == trail[i]
          IN (/\ x.state = "Init"
              /\ ~(x.streamed_state = "Exhausted" /\ x.buffered_state = "Exhausted")) =>
                /\ x.current_ordering \in {"Less", "Equal"} => x.streamed_state # "Exhausted"
                /\ x.current_ordering = "Greater" => x.buffered_state # "Exhausted"
                /\ (i + 2 \in DOMAIN trail /\ trail[i + 2].state \in {"JoinOutput", "Exhausted"}) =>
                      LET z == trail[i + 2]
                      IN IF x.current_ordering \in {"Less", "Equal"}
                         THEN /\ IF z.streamed_state = "Exhausted"
                                 THEN CurId(x) = Len(StreamedRows)
                                 ELSE z.streamed_state = "Ready" /\ CurId(z) = CurId(x) + 1
                              /\ x.buffered_state # "Init" =>
                                    /\ HeldOf(z) = HeldOf(x)
                                    /\ z.buffered_state = x.buffered_state
                         ELSE /\ IF z.buffered_state = "Exhausted"
                                 THEN NextId(x) = Len(BufferedRows) + 1
                                 ELSE /\ z.buffered_state = "Ready"
                                      /\ HeldOf(z)[1].id = NextId(x)
                              /\ CurId(z) = CurId(x)
                              /\ z.streamed_state = x.streamed_state

\* the merge has alternated: the streamed cursor is on its second row and the
\* accumulator holds a run that starts at the second buffered row
C37_Witness ==
    /\ last_poll = "batch" /\ smj.state = "JoinOutput"
    /\ smj.streamed_state = "Ready" /\ CurId(smj) = 2
    /\ smj.buffered_state = "Ready" /\ HeldOf(smj)[1].id = 2

\* m with every range of its queue empty
WithEmptyRanges(m) ==
    [m EXCEPT !.buffered_data.batches =
                  [b \in DOMAIN @ |-> [@[b] EXCEPT !.range = [start |-> 0, end |-> 0]]]]

\* C38: compare_streamed_buffered yields Greater on a stream whose streamed
\* cursor is Exhausted and Less on one whose cursor is not Exhausted and whose
\* queue is empty or has only empty ranges (tried on every stream the
\* iterations of poll_next pass through, with the cursor or the queue
\* replaced); an Exhausted accumulator has an empty queue.  In the merge, every
\* JoinOutput iteration with the streamed cursor Exhausted has ordering Greater
\* and every one with the accumulator Exhausted has ordering Less; a round that
\* starts with the streamed cursor Exhausted visits the run after the previous
\* one, a round that starts with the accumulator Exhausted visits the next
\* streamed row, or the round ends the merge.
C38_Draining ==
    LET trail == Trail(smj)
    IN /\ \A i \in DOMAIN trail :
             LET x == trail[i]
             IN /\ compare_streamed_buffered([x EXCEPT !.streamed_state = "Exhausted"]) = "Greater"
                /\ x.streamed_state # "Exhausted" =>
                      /\ compare_streamed_buffered([x EXCEPT !.buffered_data.batches = <<>>]) = "Less"
                      /\ compare_streamed_buffered(WithEmptyRanges(x)) = "Less"
                /\ x.buffered_state = "Exhausted" => x.buffered_data.batches = <<>>
                /\ (x.state = "JoinOutput" /\ x.streamed_state = "Exhausted") =>
                      x.current_ordering = "Greater"
                /\ (x.state = "JoinOutput" /\ x.buffered_state = "Exhausted") =>
                      x.current_ordering = "Less"
       /\ \A i \in 1..(Len(trail) - 2) :
             LET x == trail[i]
                 z == trail[i + 2]
             IN (x.state = "Init" /\ z.state \in {"JoinOutput", "Exhausted"}) =>
                   /\ x.streamed_state = "Exhausted" =>
                         IF z.state = "Exhausted"
                         THEN NextId(x) = Len(BufferedRows) + 1
                         ELSE /\ z.current_ordering = "Greater"
                              /\ HeldOf(z)[1].id = NextId(x)
                   /\ x.buffered_state = "Exhausted" =>
                         IF z.state = "Exhausted"
                         THEN CurId(x) = Len(StreamedRows)
                         ELSE /\ z.current_ordering = "Less"
                              /\ CurId(z) = CurId(x) + 1

\* a Full join has returned a batch for the second buffered run, visited with
\* ordering Greater after the end of the streamed input
C38_Witness ==
    /\ last_poll = "batch" /\ smj.state = "JoinOutput" /\ smj.join_type = "Full"
    /\ smj.streamed_state = "Exhausted" /\ smj.current_ordering = "Greater"
    /\ smj.buffered_state = "Ready" /\ HeldOf(smj)[1].id > 1
    /\ smj.streamed_batch # <<>>

\* ---------------------------------------------------------------- the queue
\* the streams the loop of poll_buffered_batches passes through in the
\* iteration of poll_next on m, none if the iteration does not call it
BufferedSteps(m) ==
    IF m.state # "Polling" THEN <<>>
    ELSE LET rs == polling_streamed(m)
         IN IF rs.ret \in {"pending", "err", "panic"}
                   \/ rs.m.buffered_state \in {"Exhausted", "Ready"}
            THEN <<>>
            ELSE BufferedTrail(rs.m)

\* C39: tail_batch() is reached in PollingRest only with a queue that is not
\* empty, and head_batch() in the comparison only with a held row; in
\* JoinOutput scanning_batch_idx is at most batches.len() and, below it, the
\* scan stands on a row inside the range of its batch; every buffered index
\* join_partial pushes names a queued batch and a row inside the range of
\* that batch.
C39_QueueInBounds ==
    LET trail == Trail(smj)
    IN \A i \in DOMAIN trail :
          LET x == trail[i]
              bd == x.buffered_data
              t == BufferedSteps(x)
          IN /\ \A j \in DOMAIN t :
                   t[j].buffered_state = "PollingRest" => t[j].buffered_data.batches # <<>>
             /\ has_buffered_rows(bd) => bd.batches # <<>>
             /\ x.state = "JoinOutput" =>
                   /\ bd.scanning_batch_idx <= Len(bd.batches)
                   /\ bd.scanning_batch_idx < Len(bd.batches) =>
                         bd.scanning_offset < range_len(scanning_batch(bd).range)
                   /\ \A k \in DOMAIN join_partial(x).output_indices :
                         LET index == join_partial(x).output_indices[k]
                         IN index.b_some =>
                               /\ index.b < Len(bd.batches)
                               /\ bd.batches[index.b + 1].range.start <= index.r
                               /\ index.r < bd.batches[index.b + 1].range.end

\* a scan stopped by batch_size stands in the second batch of a run that spans
\* two batches
C39_Witness ==
    /\ last_poll = "batch" /\ smj.state = "JoinOutput"
    /\ Len(smj.buffered_data.batches) = 2
    /\ smj.buffered_data.scanning_batch_idx = 1
    /\ range_len(tail_batch(smj.buffered_data).range) > 0

\* the shape of a queue: ranges inside their batches, every batch but the tail
\* covered to its end, every batch but the head from its first row
QueueShape(batches) ==
    \A b \in DOMAIN batches :
       /\ batches[b].range.start <= batches[b].range.end
       /\ batches[b].range.end <= Len(batches[b].batch)
       /\ b < Len(batches) => batches[b].range.end = Len(batches[b].batch)
       /\ b > 1 => batches[b].range.start = 0

\* C40: at every iteration of poll_next and of poll_buffered_batches the queue
\* has the shape QueueShape, and whenever the accumulator is Ready the queue is
\* not empty and the range of its head batch is not empty.
C40_QueueShape ==
    LET trail == Trail(smj)
    IN \A i \in DOMAIN trail :
          LET x == trail[i]
              t == BufferedSteps(x)
          IN /\ QueueShape(x.buffered_data.batches)
             /\ \A j \in DOMAIN t : QueueShape(t[j].buffered_data.batches)
             /\ x.buffered_state = "Ready" =>
                   /\ x.buffered_data.batches # <<>>
                   /\ range_len(head_batch(x.buffered_data).range) > 0

\* a run that starts inside the first batch and goes on in the second is held:
\* the head is covered from row 1 to its end, the tail from row 0
C40_Witness ==
    /\ last_poll = "batch" /\ smj.buffered_state = "Ready"
    /\ Len(smj.buffered_data.batches) = 2
    /\ head_batch(smj.buffered_data).range = [start |-> 1, end |-> 2]
    /\ tail_batch(smj.buffered_data).range = [start |-> 0, end |-> 1]

====
